---- MODULE Spec2Model ----
(***************************************************************************)
(* Avatar synthesis pipeline of Personalized-Avatar-Fitting:               *)
(*   services/ml/avatar_utils.py  fit_smplx_to_landmarks (texture          *)
(*       compositing, mesh assembly, artifact export)                      *)
(*   services/ml/image_utils.py   face landmark tiers and colour sampling  *)
(*   services/ml/main.py, workerrun.py   the orchestrators                 *)
(* File paths are sequences of one-character strings, so that Python's     *)
(* str.replace / os.path functions are computed character by character.    *)
(***************************************************************************)
EXTENDS Integers, Sequences, FiniteSets, TLC

(***************************************************************************)
(* Strings and paths                                                       *)
(***************************************************************************)
ExtObj == <<".", "o", "b", "j">>
ExtMtl == <<".", "m", "t", "l">>
ExtPng == <<".", "p", "n", "g">>
ExtGlb == <<".", "g", "l", "b">>
ExtJpg == <<".", "j", "p", "g">>
ExtJpeg == <<".", "j", "p", "e", "g">>
AvatarObjSuffix == <<"_", "a", "v", "a", "t", "a", "r">> \o ExtObj
Slash == "/"

\* s[i..] starts with pat
StartsAt(s, i, pat) ==
    /\ i + Len(pat) - 1 <= Len(s)
    /\ \A k \in 1..Len(pat) : s[i + k - 1] = pat[k]

EndsWith(s, suf) ==
    /\ Len(suf) <= Len(s)
    /\ StartsAt(s, Len(s) - Len(suf) + 1, suf)

\* Python str.replace(old, new): every non-overlapping occurrence, scanning
\* from the left (old is never empty here).
RECURSIVE ReplaceFrom(_, _, _, _)
ReplaceFrom(s, i, old, new) ==
    IF i > Len(s) THEN <<>>
    ELSE IF StartsAt(s, i, old)
         THEN new \o ReplaceFrom(s, i + Len(old), old, new)
         ELSE <<s[i]>> \o ReplaceFrom(s, i + 1, old, new)

StrReplace(s, old, new) == ReplaceFrom(s, 1, old, new)

\* index of the last occurrence of character c in s, 0 when there is none
LastIndexOf(s, c) ==
    IF \E i \in 1..Len(s) : s[i] = c
    THEN CHOOSE i \in 1..Len(s) : s[i] = c /\ \A j \in (i + 1)..Len(s) : s[j] # c
    ELSE 0

\* os.path.dirname (posixpath): the head of split, trailing slashes
\* stripped unless the head is all slashes
Dirname(p) ==
    LET i == LastIndexOf(p, Slash)
        head == SubSeq(p, 1, i)
    IN  IF head # <<>> /\ \E k \in 1..Len(head) : head[k] # Slash
        THEN LET last == CHOOSE k \in 1..Len(head) :
                             head[k] # Slash /\ \A j \in (k + 1)..Len(head) : head[j] = Slash
             IN SubSeq(head, 1, last)
        ELSE head

\* os.path.basename
Basename(p) == SubSeq(p, LastIndexOf(p, Slash) + 1, Len(p))

\* position of the dot that os.path.splitext splits at, 0 when the last
\* component has no extension (leading dots of the component do not count)
SplitDot(p) ==
    LET sep == LastIndexOf(p, Slash)
        dot == LastIndexOf(p, ".")
    IN  IF dot > sep /\ \E k \in (sep + 1)..(dot - 1) : p[k] # "."
        THEN dot
        ELSE 0

SplitextRoot(p) == IF SplitDot(p) = 0 THEN p ELSE SubSeq(p, 1, SplitDot(p) - 1)
SplitextExt(p) == IF SplitDot(p) = 0 THEN <<>> ELSE SubSeq(p, SplitDot(p), Len(p))

\* os.path.join(a, b) for a relative b
PathJoin(a, b) ==
    IF a = <<>> THEN b
    ELSE IF a[Len(a)] = Slash THEN a \o b
    ELSE a \o <<Slash>> \o b

(***************************************************************************)
(* Concrete paths the runs are given (inputs) and the places the code      *)
(* itself names.                                                           *)
(***************************************************************************)
NoPath == <<>>
DefaultOutPath == <<"a", "v", "a", "t", "a", "r", ".", "o", "b", "j">>
OutPathPlain == <<"u", "_", "a", "v", "a", "t", "a", "r", ".", "o", "b", "j">>
OutPathInDir == <<"d", "/", "w", "_", "a", "v", "a", "t", "a", "r", ".", "o", "b", "j">>
OutPathDotDir == <<"a", ".", "o", "b", "j", "/", "u", "_", "a", "v", "a", "t", "a", "r", ".", "o", "b", "j">>
ImageBesideOut == <<"u", ".", "p", "n", "g">>
ImageElsewhere == <<"d", "/", "p", ".", "j", "p", "g">>
UvTemplatePath == <<"u", "v", "_", "t", "e", "m", "p", "l", "a", "t", "e", ".", "p", "n", "g">>
AssetsDir == <<"m", "l", "/", "f", "a", "s", "h", "i", "o", "n", "_", "a", "s", "s", "e", "t", "s">>
MaleOutfit == <<"m", "a", "l", "e", "_", "o", "u", "t", "f", "i", "t">>
FemaleOutfit == <<"f", "e", "m", "a", "l", "e", "_", "o", "u", "t", "f", "i", "t">>

OutPaths == {DefaultOutPath, OutPathPlain, OutPathInDir, OutPathDotDir}
ImagePaths == {NoPath, ImageBesideOut, ImageElsewhere}
Genders == {"male", "female", "neutral"}

\* directories that exist on disk (the current directory is <<>>)
Dirs == {<<>>, <<"d">>, <<"a", ".", "o", "b", "j">>, AssetsDir}

\* extensions PIL's Image.save knows an encoder for (those that occur here)
ImageExts == {ExtPng, ExtJpg, ExtJpeg}

(***************************************************************************)
(* Path derivation of fit_smplx_to_landmarks                               *)
(***************************************************************************)
\* avatar_utils.py:48  one purge target per extension
PurgePath(out_path, ext) ==
    PathJoin(Dirname(out_path), SplitextRoot(Basename(out_path)) \o ext)

PurgeExts == <<ExtObj, ExtMtl, ExtPng>>

\* avatar_utils.py:118
TexturePath(out_path) == StrReplace(out_path, AvatarObjSuffix, ExtPng)

\* avatar_utils.py:125
MtlPath(out_path) == StrReplace(out_path, ExtObj, ExtMtl)

\* avatar_utils.py:152
GlbPath(out_path) == SplitextRoot(out_path) \o ExtGlb

\* avatar_utils.py:85-96  the outfit file looked up for a gender and extension
OutfitBase(gender) ==
    IF gender = "male" THEN PathJoin(AssetsDir, MaleOutfit)
    ELSE IF gender = "female" THEN PathJoin(AssetsDir, FemaleOutfit)
    ELSE NoPath

OutfitExts == <<ExtPng, ExtJpg, ExtJpeg>>

AssetPaths ==
    {OutfitBase(g) \o OutfitExts[i] : g \in {"male", "female"}, i \in 1..Len(OutfitExts)}

TargetPaths(out_path) ==
    {out_path, MtlPath(out_path), TexturePath(out_path), GlbPath(out_path)}

AllPaths ==
    UNION {TargetPaths(o) \cup {PurgePath(o, PurgeExts[i]) : i \in 1..Len(PurgeExts)} : o \in OutPaths}
        \cup (ImagePaths \ {NoPath}) \cup AssetPaths \cup {UvTemplatePath}

\* The disk is an array of file contents, one slot per path of AllPaths;
\* PathTable lists the paths and Id(p) is the slot of path p.
RECURSIVE Listed(_)
Listed(S) == IF S = {} THEN <<>> ELSE LET p == CHOOSE q \in S : TRUE IN <<p>> \o Listed(S \ {p})

PathTable == Listed(AllPaths)
Slots == 1..Len(PathTable)
Id(p) == CHOOSE i \in Slots : PathTable[i] = p

(***************************************************************************)
(* Texture: pixels are observed at sample points of the 512 x 512 canvas.  *)
(* A colour is <<r, g, b>>; "no colour" (Python None) is <<>>.             *)
(***************************************************************************)
TextureSize == 512
NoColor == <<>>
FillColor == <<10, 10, 10>>

\* int(texture_size * p / 100), the code's int(texture_size * 0.43) etc.
IntPct(n, pct) == (n * pct) \div 100

\* avatar_utils.py:73-77
FaceAnchor == <<IntPct(TextureSize, 50), IntPct(TextureSize, 32)>>
FaceSize == IntPct(TextureSize, 28)
FaceOrigin == <<FaceAnchor[1] - FaceSize \div 2, FaceAnchor[2] - FaceSize \div 2>>

\* avatar_utils.py:111-113
LeftEyeUV == <<IntPct(TextureSize, 43), IntPct(TextureSize, 32)>>
RightEyeUV == <<IntPct(TextureSize, 57), IntPct(TextureSize, 32)>>
EyeRadius == IntPct(TextureSize, 3)

SamplePoints ==
    << <<0, 0>>, <<TextureSize - 1, TextureSize - 1>>,
       <<IntPct(TextureSize, 50), IntPct(TextureSize, 80)>>,
       LeftEyeUV, RightEyeUV,
       <<LeftEyeUV[1] + 8, LeftEyeUV[2] + 7>>,
       <<RightEyeUV[1] - 8, RightEyeUV[2] - 7>>,
       FaceAnchor, FaceOrigin,
       <<FaceOrigin[1] - 1, FaceOrigin[2]>>,
       <<FaceOrigin[1] + FaceSize - 1, FaceOrigin[2] + FaceSize - 1>>,
       <<FaceOrigin[1] + FaceSize, FaceOrigin[2] + FaceSize>> >>

\* a pixel array holds the colour at each sample point, in this order
Pixels == 1..Len(SamplePoints)
At(px, point) == px[CHOOSE i \in Pixels : SamplePoints[i] = point]

\* paste(img, (x, y)): the rectangle a w x h image covers
InRect(p, origin, w, h) ==
    /\ origin[1] <= p[1] /\ p[1] < origin[1] + w
    /\ origin[2] <= p[2] /\ p[2] < origin[2] + h

\* ImageDraw.ellipse([cx-r, cy-r, cx+r, cy+r]): the filled disc
InDisc(p, c, r) ==
    (p[1] - c[1]) * (p[1] - c[1]) + (p[2] - c[2]) * (p[2] - c[2]) <= r * r

InEyes(p) == InDisc(p, LeftEyeUV, EyeRadius) \/ InDisc(p, RightEyeUV, EyeRadius)
\* line 75 resizes the crop to FaceSize x FaceSize whatever its own size is
InFace(p) == InRect(p, FaceOrigin, FaceSize, FaceSize)

\* Image.alpha_composite of an RGBA pixel over an opaque pixel, one channel
BlendChannel(src, alpha, dst) == (src * alpha + dst * (255 - alpha) + 127) \div 255

AlphaOver(rgba, rgb) ==
    << BlendChannel(rgba[1], rgba[4], rgb[1]),
       BlendChannel(rgba[2], rgba[4], rgb[2]),
       BlendChannel(rgba[3], rgba[4], rgb[3]) >>

\* The two image objects a run holds: orig is the Image created at line 57,
\* which ImageDraw.Draw is bound to at line 58; cur is the object the name
\* texture_img refers to; aliased says they are the same object.
Uniform(c) == [i \in Pixels |-> c]

NewTexture(fill) == [orig |-> Uniform(fill), cur |-> Uniform(fill), aliased |-> TRUE]

\* texture_img.paste(face_img, (face_x, face_y)): in place on texture_img
PasteFace(t, facePixel) ==
    LET painted(px) == [i \in Pixels |-> IF InFace(SamplePoints[i]) THEN facePixel ELSE px[i]]
    IN  [t EXCEPT !.cur = painted(t.cur),
                  !.orig = IF t.aliased THEN painted(t.orig) ELSE t.orig]

\* lines 99-102: convert / alpha_composite / convert each return a new image,
\* and texture_img is rebound to it
CompositeGarment(t, garment) ==
    [t EXCEPT !.cur = [i \in Pixels |-> AlphaOver(garment[i], t.cur[i])],
              !.aliased = FALSE]

\* draw.ellipse(...): in place on the image draw was created for
DrawEyes(t, eye_color) ==
    LET painted(px) == [i \in Pixels |-> IF InEyes(SamplePoints[i]) THEN eye_color ELSE px[i]]
    IN  [t EXCEPT !.orig = painted(t.orig),
                  !.cur = IF t.aliased THEN painted(t.cur) ELSE t.cur]

\* garment images by style, already resized to the canvas
GarmentColor == <<40, 60, 200>>
HeadLine == IntPct(TextureSize, 45)
GarmentPixels(style) ==
    [i \in Pixels |->
        GarmentColor \o << IF style = "opaque" THEN 255
                           ELSE IF style = "sheer" THEN 128
                           ELSE IF SamplePoints[i][2] < HeadLine THEN 0 ELSE 255 >>]

(***************************************************************************)
(* Planar UV mapping, avatar_utils.py:131-133 (and 9-11).  Vertices have   *)
(* integer coordinates; a quotient is kept as numerator and denominator,   *)
(* and IEEE division 0/0 is NaN.                                           *)
(***************************************************************************)
NaN == [num |-> 0, den |-> 0]
Quot(n, d) == IF d = 0 /\ n = 0 THEN NaN ELSE [num |-> n, den |-> d]
InUnit(q) == q.den > 0 /\ 0 <= q.num /\ q.num <= q.den

RECURSIVE SeqMin(_, _)
SeqMin(vs, k) ==
    IF Len(vs) = 1 THEN vs[1][k]
    ELSE LET m == SeqMin(Tail(vs), k) IN IF vs[1][k] < m THEN vs[1][k] ELSE m

RECURSIVE SeqMax(_, _)
SeqMax(vs, k) ==
    IF Len(vs) = 1 THEN vs[1][k]
    ELSE LET m == SeqMax(Tail(vs), k) IN IF vs[1][k] > m THEN vs[1][k] ELSE m

\* the mapping dividing by the maximum instead of the extent
PlanarAxisByMax(vs, i, k) == Quot(vs[i][k] - SeqMin(vs, k), SeqMax(vs, k))

PlanarAxis(vs, i, k) == Quot(vs[i][k] - SeqMin(vs, k), SeqMax(vs, k) - SeqMin(vs, k))

PlanarUV(vs) == [i \in 1..Len(vs) |-> <<PlanarAxis(vs, i, 1), PlanarAxis(vs, i, 2)>>]

Degenerate(vs) == SeqMax(vs, 1) = SeqMin(vs, 1) \/ SeqMax(vs, 2) = SeqMin(vs, 2)

(***************************************************************************)
(* File contents.  Every content is a record with a kind.                  *)
(***************************************************************************)
NoFile == [kind |-> "none"]
OldFile == [kind |-> "old"]
\* crop is the size of the box crop_face cuts out of the photograph
PhotoFile(hasFace) == [kind |-> "photo", face |-> hasFace, crop |-> <<120, 120>>]
TallPhoto == [kind |-> "photo", face |-> TRUE, crop |-> <<90, 120>>]
GarmentFile(style) == [kind |-> "garment", style |-> style]
CorruptFile == [kind |-> "corrupt"]
TextureFile(px) == [kind |-> "texture", px |-> px]
SkinName == <<"s", "k", "i", "n">>
MtlFile(texture_name) == [kind |-> "mtl", newmtl |-> SkinName, map_Kd |-> texture_name]
ObjFile(lines) == [kind |-> "obj", lines |-> lines]
GlbFile(m) == [kind |-> "glb", mesh |-> m]
UvTemplateFile(dots) == [kind |-> "uvtemplate", dots |-> dots]

FacePixel == <<220, 180, 160>>
SkinTone == <<200, 150, 100>>
EyeTone == <<0, 0, 255>>

\* the inputs of the mesh: one triangle of the body model's output
Triangle == << <<0, 0, 0>>, <<2, 1, 0>>, <<1, 2, 0>> >>
FlatX == << <<1, 0, 0>>, <<1, 1, 0>>, <<1, 2, 0>> >>
FlatY == << <<0, 1, 0>>, <<1, 1, 0>>, <<2, 1, 0>> >>
Faces == << <<1, 2, 3>> >>

MaxRuns == 2

VARIABLES
    args,       \* the arguments of fit_smplx_to_landmarks, the same for every run
    env,        \* what the disk and the detectors do, the same for every run
    fs,         \* path -> file content
    writer,     \* path -> number of the run that last wrote it (0: before any run)
    wlog,       \* the removals and writes of the current run, in order
    runNo,      \* number of the current run
    fsPrev,     \* fs at the end of the previous run
    pc,         \* position of the current run
    tex,        \* the image objects of the current run
    mesh,       \* the trimesh object of the current run
    ret,        \* the path the current run returned, NoPath before
    exc,        \* the exception the current run raised, "none" before
    uv_in,      \* vertex array given to the planar mapping
    uv_out,     \* its result
    oargs,      \* the orchestrator that runs and its image_path
    oenv,       \* what the detectors find in the image
    opc,        \* position of the orchestrator
    face_i,     \* index of the box the face loop is at
    sampled,    \* the latest colour-sampler call and its outcome
    face_skin, \* analyze_face's local skin_color
    face_results, \* the face loop's list of results
    ogender,    \* detected gender, "" before detection
    ofiles,     \* paths the orchestrator has written
    oresult,    \* what the orchestrator returned
    oexc,       \* the exception that ended it, "none" otherwise
    m_in,       \* landmarks and image_size given to estimate_body_measurements
    m_out,      \* its outcome
    s_in,       \* what the detectors find in the file given to the colour samplers
    s_skin,     \* outcome of extract_skin_color on it
    s_eye,      \* outcome of extract_eye_color on it
    r_disk,     \* two runs at once on one out_path: path -> 0 (no file), the run
                \* that wrote it, or 3 (left by an earlier export)
    r_pc,       \* run -> its position
    r_k,        \* run -> index of the exists/remove pair it is at
    c_file,     \* two analyze_face calls at once: the crop in the temporary
                \* crop file and the call that saved it (0: no file, 3: an
                \* earlier call)
    c_pc,       \* call -> its position
    c_read      \* call -> its own crop, what its samplers returned and whose
                \* crop they read

fitVars == <<args, env, fs, writer, wlog, runNo, fsPrev, pc, tex, mesh, ret, exc>>
uvVars == <<uv_in, uv_out>>
orchVars == <<oargs, oenv, opc, face_i, sampled, face_skin, face_results, ogender,
              ofiles, oresult, oexc>>
measureVars == <<m_in, m_out>>
sampleVars == <<s_in, s_skin, s_eye>>
raceVars == <<r_disk, r_pc, r_k>>
callVars == <<c_file, c_pc, c_read>>
vars == <<fitVars, uvVars, orchVars, measureVars, sampleVars, raceVars, callVars>>

File(disk, p) == disk[Id(p)]
Put(disk, p, content) == [disk EXCEPT ![Id(p)] = content]
Exists(p) == File(fs, p).kind # "none"

NewMesh(vertices) == [vertices |-> vertices, faces |-> Faces, visual |-> [kind |-> "default"]]
NoTexture == [orig |-> <<>>, cur |-> <<>>, aliased |-> TRUE]

Removal(p) == [op |-> "remove", kind |-> "any", path |-> p]
Write(k, p) == [op |-> "write", kind |-> k, path |-> p]

(***************************************************************************)
(* avatar_utils.py:1-20  export_uv_template                                *)
(***************************************************************************)
\* int(u * (texture_size - 1)), int((1 - v) * (texture_size - 1))
UvDots(vs) ==
    LET uv == PlanarUV(vs)
    IN  { << (uv[i][1].num * (TextureSize - 1)) \div uv[i][1].den,
             ((uv[i][2].den - uv[i][2].num) * (TextureSize - 1)) \div uv[i][2].den >>
          : i \in 1..Len(vs) }

\* int(nan) raises ValueError, which the caller catches (lines 42-45)
UvTemplateRaises(vs) == Degenerate(vs)

(***************************************************************************)
(* avatar_utils.py:29-50  body model, UV template, purge                   *)
(***************************************************************************)
PurgeSet(out_path) == {PurgePath(out_path, PurgeExts[i]) : i \in 1..Len(PurgeExts)}

\* lines 47-50: the disk after the purge loop from extension i on, and the
\* removals it made, in extension order
RECURSIVE Purged(_, _, _)
Purged(out_path, i, files) ==
    IF i > Len(PurgeExts) THEN files
    ELSE Purged(out_path, i + 1, Put(files, PurgePath(out_path, PurgeExts[i]), NoFile))

RECURSIVE PurgeLog(_, _, _)
PurgeLog(out_path, i, files) ==
    IF i > Len(PurgeExts) THEN <<>>
    ELSE LET p == PurgePath(out_path, PurgeExts[i])
         IN  IF File(files, p).kind # "none"
             THEN <<Removal(p)>> \o PurgeLog(out_path, i + 1, files)
             ELSE PurgeLog(out_path, i + 1, files)

Prepare ==
    /\ pc = "prepare"
    /\ LET templated == ~UvTemplateRaises(args.vertices)
           fs1 == IF templated
                  THEN Put(fs, UvTemplatePath, UvTemplateFile(UvDots(args.vertices)))
                  ELSE fs
       IN  /\ fs' = Purged(args.out_path, 1, fs1)
           /\ writer' = IF templated THEN Put(writer, UvTemplatePath, runNo) ELSE writer
           /\ wlog' = (IF templated THEN <<Write("uvtemplate", UvTemplatePath)>> ELSE <<>>)
                          \o PurgeLog(args.out_path, 1, fs1)
    /\ mesh' = NewMesh(args.vertices)
    /\ pc' = "base"
    /\ UNCHANGED <<args, env, runNo, fsPrev, tex, ret, exc, uvVars, orchVars, measureVars, sampleVars, raceVars, callVars>>

(***************************************************************************)
(* avatar_utils.py:52-115  the texture layers                              *)
(***************************************************************************)
\* lines 52-58
BaseLayer == NewTexture(FillColor)

BaseFill ==
    /\ pc = "base"
    /\ tex' = BaseLayer
    /\ pc' = "face"
    /\ UNCHANGED <<args, env, fs, writer, wlog, runNo, fsPrev, mesh, ret, exc, uvVars, orchVars, measureVars, sampleVars, raceVars, callVars>>

\* what detect_faces / crop_face / extract_face_landmarks find in a file:
\* a photo shows a face or not; a texture written by an earlier run shows
\* the face pasted on it if the detector picks it up; anything that is not
\* an image makes Image.open raise, which line 80 catches
ShowsFace(content) ==
    IF content.kind = "photo" THEN content.face
    ELSE IF content.kind = "texture"
         THEN env.detectsPasted /\ At(content.px, FaceOrigin) = FacePixel
    ELSE FALSE

\* the face pasted for any file that is there
FaceLayerUnguarded(t) ==
    IF args.image_path # NoPath /\ Exists(args.image_path)
    THEN PasteFace(t, FacePixel)
    ELSE t

\* lines 60-81
FaceLayer(t) ==
    IF args.image_path # NoPath /\ Exists(args.image_path) /\ ShowsFace(File(fs, args.image_path))
    THEN PasteFace(t, FacePixel)
    ELSE t

FaceOverlay ==
    /\ pc = "face"
    /\ tex' = FaceLayer(tex)
    /\ pc' = "garment"
    /\ UNCHANGED <<args, env, fs, writer, wlog, runNo, fsPrev, mesh, ret, exc, uvVars, orchVars, measureVars, sampleVars, raceVars, callVars>>

\* lines 92-96  first extension, in order, whose file exists
RECURSIVE FirstOutfit(_, _)
FirstOutfit(base, i) ==
    IF base = NoPath \/ i > Len(OutfitExts) THEN NoPath
    ELSE IF Exists(base \o OutfitExts[i]) THEN base \o OutfitExts[i]
    ELSE FirstOutfit(base, i + 1)

OutfitPath == FirstOutfit(OutfitBase(args.gender), 1)

\* lines 83-107: an undecodable file raises in Image.open, caught at line 106
GarmentApplies == OutfitPath # NoPath /\ File(fs, OutfitPath).kind = "garment"

GarmentLayer(t) ==
    IF GarmentApplies
    THEN CompositeGarment(t, GarmentPixels(File(fs, OutfitPath).style))
    ELSE t

GarmentOverlay ==
    /\ pc = "garment"
    /\ tex' = GarmentLayer(tex)
    /\ pc' = "eyes"
    /\ UNCHANGED <<args, env, fs, writer, wlog, runNo, fsPrev, mesh, ret, exc, uvVars, orchVars, measureVars, sampleVars, raceVars, callVars>>

\* lines 109-115
EyeLayer(t) == IF args.eye_color # NoColor THEN DrawEyes(t, args.eye_color) ELSE t

PaintEyes ==
    /\ pc = "eyes"
    /\ tex' = EyeLayer(tex)
    /\ pc' = "save_texture"
    /\ UNCHANGED <<args, env, fs, writer, wlog, runNo, fsPrev, mesh, ret, exc, uvVars, orchVars, measureVars, sampleVars, raceVars, callVars>>

(***************************************************************************)
(* avatar_utils.py:117-123  save the texture                               *)
(***************************************************************************)
\* Image.save picks the encoder from the extension and raises ValueError for
\* an unknown one before it opens the file; open raises for a missing directory
SaveRaises(path) ==
    IF SplitextExt(path) \notin ImageExts THEN "ValueError"
    ELSE IF Dirname(path) \notin Dirs THEN "FileNotFoundError"
    ELSE "none"

SaveTexture ==
    /\ pc = "save_texture"
    /\ LET path == TexturePath(args.out_path)
           existed == Exists(path)
           removed == IF existed THEN <<Removal(path)>> ELSE <<>>
           fs1 == Put(fs, path, NoFile)
       IN  IF SaveRaises(path) = "none"
           THEN /\ fs' = Put(fs1, path, TextureFile(tex.cur))
                /\ writer' = Put(writer, path, runNo)
                /\ wlog' = wlog \o removed \o <<Write("texture", path)>>
                /\ pc' = "write_mtl"
                /\ exc' = exc
           ELSE /\ fs' = fs1
                /\ writer' = writer
                /\ wlog' = wlog \o removed
                /\ pc' = "raised"
                /\ exc' = SaveRaises(path)
    /\ UNCHANGED <<args, env, runNo, fsPrev, tex, mesh, ret, uvVars, orchVars, measureVars, sampleVars, raceVars, callVars>>

(***************************************************************************)
(* avatar_utils.py:124-129  write the material file                        *)
(***************************************************************************)
\* the material file naming the texture by the path it was saved under
MtlTextureRefFullPath(texture_path) == texture_path

\* line 127: map_Kd {os.path.basename(texture_path)}
MtlTextureRef(texture_path) == Basename(texture_path)

WriteMtl ==
    /\ pc = "write_mtl"
    /\ LET path == MtlPath(args.out_path)
           texture_name == MtlTextureRef(TexturePath(args.out_path))
       IN  IF Dirname(path) \in Dirs
           THEN /\ fs' = Put(fs, path, MtlFile(texture_name))
                /\ writer' = Put(writer, path, runNo)
                /\ wlog' = wlog \o <<Write("mtl", path)>>
                /\ pc' = "assemble"
                /\ exc' = exc
           ELSE /\ UNCHANGED <<fs, writer, wlog>>
                /\ pc' = "raised"
                /\ exc' = "FileNotFoundError"
    /\ UNCHANGED <<args, env, runNo, fsPrev, tex, mesh, ret, uvVars, orchVars, measureVars, sampleVars, raceVars, callVars>>

(***************************************************************************)
(* avatar_utils.py:130-142  UVs, vertex colours, texture visual            *)
(***************************************************************************)
\* lines 136-139
VertexColor(skin_color) ==
    IF Len(skin_color) = 3 THEN skin_color \o <<255>> ELSE skin_color

\* line 140: mesh.visual.vertex_colors = np.tile(...)
SetVertexColors(m, color) ==
    [m EXCEPT !.visual = [kind |-> "color",
                          vertex_colors |-> [i \in 1..Len(m.vertices) |-> color]]]

\* line 142: mesh.visual = TextureVisuals(uv=uv, image=...), a new visual
\* object that takes the place of the one the mesh had
SetTextureVisual(m, uv, image) ==
    [m EXCEPT !.visual = [kind |-> "texture", uv |-> uv, image |-> image]]

AssembleMesh ==
    /\ pc = "assemble"
    /\ LET coloured == IF args.skin_color # NoColor
                       THEN SetVertexColors(mesh, VertexColor(args.skin_color))
                       ELSE mesh
       IN  mesh' = SetTextureVisual(coloured, PlanarUV(args.vertices), tex.cur)
    /\ pc' = "write_obj"
    /\ UNCHANGED <<args, env, fs, writer, wlog, runNo, fsPrev, tex, ret, exc, uvVars, orchVars, measureVars, sampleVars, raceVars, callVars>>

(***************************************************************************)
(* avatar_utils.py:143-149  write the mesh file                            *)
(***************************************************************************)
ObjLine(tag, arg) == [tag |-> tag, arg |-> arg]

\* line 146
ObjHeader(mtl_name) == <<ObjLine("mtllib", mtl_name), ObjLine("usemtl", SkinName)>>

\* line 147: trimesh's OBJ text without texture: vertex records, then faces
ObjGeometry(m) ==
    [i \in 1..Len(m.vertices) |-> ObjLine("v", m.vertices[i])]
        \o [i \in 1..Len(m.faces) |-> ObjLine("f", m.faces[i])]

WriteObj ==
    /\ pc = "write_obj"
    /\ LET mtl_name == Basename(MtlPath(args.out_path))
           lines == IF env.objFails
                    THEN ObjHeader(mtl_name)
                    ELSE ObjHeader(mtl_name) \o ObjGeometry(mesh)
       IN  IF Dirname(args.out_path) \in Dirs
           THEN /\ fs' = Put(fs, args.out_path, ObjFile(lines))
                /\ writer' = Put(writer, args.out_path, runNo)
                /\ wlog' = wlog \o <<Write("obj", args.out_path)>>
           ELSE UNCHANGED <<fs, writer, wlog>>
    /\ pc' = "export_glb"
    /\ UNCHANGED <<args, env, runNo, fsPrev, tex, mesh, ret, exc, uvVars, orchVars, measureVars, sampleVars, raceVars, callVars>>

(***************************************************************************)
(* avatar_utils.py:151-160  export the binary scene, return                *)
(***************************************************************************)
\* the export returning the binary-scene path whether or not it was written
ExportGlbAlwaysGlbPath ==
    /\ pc = "export_glb"
    /\ LET glb_path == GlbPath(args.out_path)
       IN  IF ~env.glbFails /\ Dirname(glb_path) \in Dirs
           THEN /\ fs' = Put(fs, glb_path, GlbFile(mesh))
                /\ writer' = Put(writer, glb_path, runNo)
                /\ wlog' = wlog \o <<Write("glb", glb_path)>>
                /\ ret' = glb_path
           ELSE /\ UNCHANGED <<fs, writer, wlog>>
                /\ ret' = glb_path
    /\ pc' = "returned"
    /\ UNCHANGED <<args, env, runNo, fsPrev, tex, mesh, exc, uvVars, orchVars, measureVars, sampleVars, raceVars, callVars>>

ExportGlb ==
    /\ pc = "export_glb"
    /\ LET glb_path == GlbPath(args.out_path)
       IN  IF ~env.glbFails /\ Dirname(glb_path) \in Dirs
           THEN /\ fs' = Put(fs, glb_path, GlbFile(mesh))
                /\ writer' = Put(writer, glb_path, runNo)
                /\ wlog' = wlog \o <<Write("glb", glb_path)>>
                /\ ret' = glb_path
           ELSE /\ UNCHANGED <<fs, writer, wlog>>
                /\ ret' = args.out_path
    /\ pc' = "returned"
    /\ UNCHANGED <<args, env, runNo, fsPrev, tex, mesh, exc, uvVars, orchVars, measureVars, sampleVars, raceVars, callVars>>

(***************************************************************************)
(* The caller runs the export again with the same arguments.               *)
(***************************************************************************)
Finished == pc \in {"returned", "raised"}

NextRun ==
    /\ Finished
    /\ runNo < MaxRuns
    /\ runNo' = runNo + 1
    /\ fsPrev' = fs
    /\ pc' = "prepare"
    /\ tex' = NoTexture
    /\ mesh' = NewMesh(args.vertices)
    /\ ret' = NoPath
    /\ exc' = "none"
    /\ wlog' = <<>>
    /\ UNCHANGED <<args, env, fs, writer, uvVars, orchVars, measureVars, sampleVars, raceVars, callVars>>

(***************************************************************************)
(* Colour sampling, image_utils.py:305-391.  A face crop is a CropW x      *)
(* CropH image; what the two detectors find in it is a record              *)
(*   [readable |-> Image.open can read the file,                           *)
(*    mesh |-> FaceMesh finds a face, box |-> FaceDetection finds a face,  *)
(*    layout |-> where the mesh landmarks lie]                             *)
(* and extract_face_landmarks turns it into the coordinate list.  A list   *)
(* is kept as its length and its element function over Python's indices.   *)
(***************************************************************************)
CropW == 40
CropH == 36

\* cv2.imread: the pixel at column x, row y, channels in the file's BGR order
CropPixel(x, y) == <<60 + x, 100 + 2 * y, 90 + x + y>>

\* FaceMesh(static_image_mode=True) returns 468 landmarks per face
DenseCount == 468

\* where the face mesh puts landmark k: spread over the crop, all at the
\* top-left corner, or outside the image
MeshLayouts == {"spread", "corner", "outside"}
\* every landmark at one point in the middle of the crop, or at the
\* distance of a sampling radius (10 or 5) beyond one of its borders
BorderAnchor ==
    [middle |-> <<CropW \div 2, CropH \div 2>>,
     left10 |-> <<0 - 10, CropH \div 2>>, left5 |-> <<0 - 5, CropH \div 2>>,
     right10 |-> <<CropW + 9, CropH \div 2>>, right5 |-> <<CropW + 4, CropH \div 2>>,
     above10 |-> <<CropW \div 2, 0 - 10>>, above5 |-> <<CropW \div 2, 0 - 5>>,
     below10 |-> <<CropW \div 2, CropH + 9>>, below5 |-> <<CropW \div 2, CropH + 4>>]
MeshPoint(layout, k) ==
    IF layout = "spread" THEN <<4 + (k % 31), 3 + ((k \div 31) % 29)>>
    ELSE IF layout = "corner" THEN <<0, 0>>
    ELSE IF layout = "outside" THEN <<0 - 30, CropH + 30>>
    ELSE BorderAnchor[layout]

\* the detection box found in a crop, lines 323-329
CropBox == <<2, 3, CropW - 2, CropH - 3>>

\* lines 329: [(x1, y1), (x2, y1), (x2, y2), (x1, y2)]
BoxCorners(box) ==
    << <<box[1], box[2]>>, <<box[3], box[2]>>, <<box[3], box[4]>>, <<box[1], box[4]>> >>

NoCoords == [len |-> 0 - 1]

\* the chain tried from the box detector first
extract_face_landmarks_box_first(found) ==
    IF ~found.readable THEN NoCoords
    ELSE IF found.box
    THEN [len |-> 4, at |-> [k \in 0..3 |-> BoxCorners(CropBox)[k + 1]]]
    ELSE IF found.mesh
    THEN [len |-> DenseCount, at |-> [k \in 0..(DenseCount - 1) |-> MeshPoint(found.layout, k)]]
    ELSE NoCoords

\* lines 305-334: dense mesh, else the four box corners, else None; a file
\* Image.open cannot read raises inside the try and gives None as well
extract_face_landmarks(found) ==
    IF ~found.readable THEN NoCoords
    ELSE IF found.mesh
    THEN [len |-> DenseCount, at |-> [k \in 0..(DenseCount - 1) |-> MeshPoint(found.layout, k)]]
    ELSE IF found.box
    THEN [len |-> 4, at |-> [k \in 0..3 |-> BoxCorners(CropBox)[k + 1]]]
    ELSE NoCoords

\* the landmark indices the samplers name
LeftCheekIdx == 234
RightCheekIdx == 454
LeftIrisIdx == 474
RightIrisIdx == 469
FallbackEyeIdx == <<33, 133, 362, 263>>
SkinRegion == 10
EyeRegion == 5
DefaultSkin == <<198, 134, 66>>

\* the pixels one anchor contributes: for dx in range(-r, r), for dy in
\* range(-r, r), kept when 0 <= nx < w and 0 <= ny < h
WindowOffsets(r) == [j \in 1..(4 * r * r) |-> <<((j - 1) \div (2 * r)) - r, ((j - 1) % (2 * r)) - r>>]
InCrop(p) == 0 <= p[1] /\ p[1] < CropW /\ 0 <= p[2] /\ p[2] < CropH
WindowColors(anchor, r) ==
    LET pts == [j \in 1..(4 * r * r) |->
                   <<anchor[1] + WindowOffsets(r)[j][1], anchor[2] + WindowOffsets(r)[j][2]>>]
        kept == SelectSeq(pts, InCrop)
    IN  [j \in 1..Len(kept) |-> CropPixel(kept[j][1], kept[j][2])]

RECURSIVE SampleColors(_, _)
SampleColors(points, r) ==
    IF points = <<>> THEN <<>>
    ELSE WindowColors(Head(points), r) \o SampleColors(Tail(points), r)

\* tuple(int(c) for c in np.mean(colors, axis=0))
RECURSIVE SumBetween(_, _, _, _)
SumBetween(colors, ch, lo, hi) ==
    IF lo > hi THEN 0
    ELSE IF lo = hi THEN colors[lo][ch]
    ELSE LET mid == (lo + hi) \div 2
         IN  SumBetween(colors, ch, lo, mid) + SumBetween(colors, ch, mid + 1, hi)

ChannelSum(colors, ch) == SumBetween(colors, ch, 1, Len(colors))
MeanColor(colors) == [ch \in 1..3 |-> ChannelSum(colors, ch) \div Len(colors)]

Returned(value) == [status |-> "ok", value |-> value]
Raised(error) == [status |-> "raised", value |-> NoColor, error |-> error]

\* lines 336-356
extract_skin_color(found) ==
    LET coords == extract_face_landmarks(found)
    IN  IF coords = NoCoords THEN Returned(DefaultSkin)
        ELSE IF LeftCheekIdx >= coords.len \/ RightCheekIdx >= coords.len
             THEN Raised("IndexError")
        ELSE LET colors == SampleColors(<<coords.at[LeftCheekIdx], coords.at[RightCheekIdx]>>,
                                        SkinRegion)
             IN  IF colors # <<>> THEN Returned(MeanColor(colors)) ELSE Returned(NoColor)

\* lines 371-379: the iris pair when the list is long enough, else those of
\* the four eye-corner landmarks the list has
RECURSIVE FallbackPoints(_, _)
FallbackPoints(coords, i) ==
    IF i > Len(FallbackEyeIdx) THEN <<>>
    ELSE IF FallbackEyeIdx[i] < coords.len
         THEN <<coords.at[FallbackEyeIdx[i]]>> \o FallbackPoints(coords, i + 1)
         ELSE FallbackPoints(coords, i + 1)

EyePoints(coords) ==
    IF coords.len > (IF LeftIrisIdx > RightIrisIdx THEN LeftIrisIdx ELSE RightIrisIdx)
    THEN <<coords.at[LeftIrisIdx], coords.at[RightIrisIdx]>>
    ELSE FallbackPoints(coords, 1)

\* the eye sampler answering a missing face with the default skin tone
extract_eye_color_defaulting(found) ==
    LET coords == extract_face_landmarks(found)
    IN  IF coords = NoCoords THEN Returned(DefaultSkin)
        ELSE LET colors == SampleColors(EyePoints(coords), EyeRegion)
             IN  IF colors # <<>> THEN Returned(MeanColor(colors)) ELSE Returned(NoColor)

\* lines 358-391
extract_eye_color(found) ==
    LET coords == extract_face_landmarks(found)
    IN  IF coords = NoCoords THEN Returned(NoColor)
        ELSE LET colors == SampleColors(EyePoints(coords), EyeRegion)
             IN  IF colors # <<>> THEN Returned(MeanColor(colors)) ELSE Returned(NoColor)

(***************************************************************************)
(* The orchestrators: main.py, the program block of image_utils.py         *)
(* (lines 205-220, the steps main() lists), and the worker tasks           *)
(* process_user_image_3d_auto_gender ("worker") and process_user_image     *)
(* ("task") of workerrun.py.                                               *)
(***************************************************************************)
MaxFaces == 2

PhotoJpg == <<"p", ".", "j", "p", "g">>
PhotoJpeg == <<"q", ".", "j", "p", "e", "g">>
PhotoPng == <<"u", ".", "p", "n", "g">>
OrchImages == {PhotoJpg, PhotoJpeg, PhotoPng}
\* an image whose extension none of the three replace calls matches
PhotoUpper == <<"P", ".", "J", "P", "G">>
\* workerrun.py:190
AvatarPngSuffix == <<"_", "a", "v", "a", "t", "a", "r">> \o ExtPng
FaceCropTemp == <<"_", "f", "a", "c", "e", "c", "r", "o", "p", "_", "t", "e", "m", "p">> \o ExtPng
BodymaskSuffix == <<"_", "b", "o", "d", "y", "m", "a", "s", "k">> \o ExtPng
MeasurementsSuffix == <<"_", "m", "e", "a", "s", "u", "r", "e", "m", "e", "n", "t", "s", ".", "t", "x", "t">>
FacecropSuffix == <<"_", "f", "a", "c", "e", "c", "r", "o", "p">> \o ExtPng
GenderWord(g) ==
    IF g = "male" THEN <<"m", "a", "l", "e">>
    ELSE IF g = "female" THEN <<"f", "e", "m", "a", "l", "e">>
    ELSE <<"n", "e", "u", "t", "r", "a", "l">>

\* image_path.replace('.jpg', s).replace('.jpeg', s).replace('.png', s)
SuffixPath(image_path, suffix) ==
    StrReplace(StrReplace(StrReplace(image_path, ExtJpg, suffix), ExtJpeg, suffix), ExtPng, suffix)

\* workerrun.py:222
AvatarObjPath(image_path, gender) ==
    SuffixPath(image_path, <<"_">> \o GenderWord(gender) \o AvatarObjSuffix)

\* what the detectors can find in a face crop
FaceFindings ==
    {[readable |-> TRUE, mesh |-> FALSE, box |-> b, layout |-> "spread"] : b \in BOOLEAN}
        \cup {[readable |-> TRUE, mesh |-> TRUE, box |-> b, layout |-> l] :
                   b \in BOOLEAN, l \in MeshLayouts}

FaceLists == UNION {[1..n -> FaceFindings] : n \in 0..MaxFaces}

NoSample == [op |-> "none", status |-> "ok", value |-> NoColor]
NoResult == [kind |-> "none"]
Sample(op, outcome) == [op |-> op, status |-> outcome.status, value |-> outcome.value]

\* main.py:2-3: avatar_utils defines no estimate_body_measurements, so the
\* import statement raises before main() is defined
ImportMain ==
    /\ oargs.orch = "main" /\ opc = "import"
    /\ opc' = "raised"
    /\ oexc' = "ImportError"
    /\ UNCHANGED <<oargs, oenv, face_i, sampled, face_skin, face_results, ogender,
                   ofiles, oresult, fitVars, uvVars, measureVars, sampleVars, raceVars, callVars>>

\* image_utils.py:208 (main.py:9)
DetectFaces ==
    /\ oargs.orch = "script" /\ opc = "detect_faces"
    /\ face_i' = 1
    /\ opc' = IF Len(oenv.faces) = 0 THEN "body" ELSE "crop"
    /\ UNCHANGED <<oargs, oenv, sampled, face_skin, face_results, ogender, ofiles,
                   oresult, oexc, fitVars, uvVars, measureVars, sampleVars, raceVars, callVars>>

\* analyze_face, image_utils.py:31-34: crop the box, save it as the temp file
CropFace ==
    /\ opc = "crop"
    /\ ofiles' = ofiles \cup {FaceCropTemp}
    /\ opc' = "skin"
    /\ UNCHANGED <<oargs, oenv, face_i, sampled, face_skin, face_results, ogender,
                   oresult, oexc, fitVars, uvVars, measureVars, sampleVars, raceVars, callVars>>

\* analyze_face, image_utils.py:35; an exception leaves analyze_face and the
\* loop that called it
SampleSkin ==
    /\ opc = "skin"
    /\ LET outcome == extract_skin_color(oenv.faces[face_i])
       IN  /\ sampled' = Sample("extract_skin_color", outcome)
           /\ IF outcome.status = "raised"
              THEN /\ opc' = "raised"
                   /\ oexc' = outcome.error
                   /\ face_skin' = face_skin
              ELSE /\ opc' = "eye"
                   /\ oexc' = oexc
                   /\ face_skin' = outcome.value
    /\ UNCHANGED <<oargs, oenv, face_i, face_results, ogender, ofiles, oresult,
                   fitVars, uvVars, measureVars, sampleVars, raceVars, callVars>>

\* analyze_face, image_utils.py:36-41, and the loop's append (lines 210-214)
SampleEye ==
    /\ opc = "eye"
    /\ LET outcome == extract_eye_color(oenv.faces[face_i])
       IN  /\ sampled' = Sample("extract_eye_color", outcome)
           /\ face_results' = Append(face_results,
                                     [skin_color |-> face_skin, eye_color |-> outcome.value])
    /\ face_i' = face_i + 1
    /\ opc' = IF face_i < Len(oenv.faces) THEN "crop" ELSE "body"
    /\ UNCHANGED <<oargs, oenv, face_skin, ogender, ofiles, oresult, oexc,
                   fitVars, uvVars, measureVars, sampleVars, raceVars, callVars>>

\* extract_body_shape, image_utils.py:223-241 = workerrun.py:118-141: without
\* pose landmarks nothing is written; with them the mask and the
\* measurements file are
BodyFiles(image_path) ==
    {SuffixPath(image_path, BodymaskSuffix), SuffixPath(image_path, MeasurementsSuffix)}

\* image_utils.py:216-218
ScriptBody ==
    /\ oargs.orch = "script" /\ opc = "body"
    /\ ofiles' = IF oenv.pose THEN ofiles \cup BodyFiles(oargs.image_path) ELSE ofiles
    /\ opc' = IF oenv.pose THEN "measure" ELSE "done"
    /\ oresult' = IF oenv.pose THEN oresult ELSE [kind |-> "done", measured |-> FALSE]
    /\ UNCHANGED <<oargs, oenv, face_i, sampled, face_skin, face_results, ogender,
                   oexc, fitVars, uvVars, measureVars, sampleVars, raceVars, callVars>>

\* image_utils.py:219-220
ScriptMeasure ==
    /\ oargs.orch = "script" /\ opc = "measure"
    /\ oresult' = [kind |-> "done", measured |-> TRUE]
    /\ opc' = "done"
    /\ UNCHANGED <<oargs, oenv, face_i, sampled, face_skin, face_results, ogender,
                   ofiles, oexc, fitVars, uvVars, measureVars, sampleVars, raceVars, callVars>>

\* workerrun.py:105-116 called at line 209: any failure of the classifier
\* is caught and gives 'neutral'
detect_gender(outcome) == IF outcome = "fail" THEN "neutral" ELSE outcome

WorkerGender ==
    /\ oargs.orch = "worker" /\ opc = "gender"
    /\ ogender' = detect_gender(oenv.gender)
    /\ opc' = "body"
    /\ UNCHANGED <<oargs, oenv, face_i, sampled, face_skin, face_results, ofiles,
                   oresult, oexc, fitVars, uvVars, measureVars, sampleVars, raceVars, callVars>>

\* the body step writing the mask preview before it looks at the pose
WorkerBodyMaskFirst ==
    /\ oargs.orch \in {"worker", "task"} /\ opc = "body"
    /\ ofiles' = IF oenv.pose THEN ofiles \cup BodyFiles(oargs.image_path)
                 ELSE ofiles \cup {SuffixPath(oargs.image_path, BodymaskSuffix)}
    /\ opc' = IF ~oenv.pose THEN "returned"
              ELSE IF oargs.orch = "worker" THEN "fit" ELSE "silhouette"
    /\ oresult' = IF oenv.pose THEN oresult
                  ELSE [kind |-> "error", error |-> "No person detected"]
    /\ UNCHANGED <<oargs, oenv, face_i, sampled, face_skin, face_results, ogender,
                   oexc, fitVars, uvVars, measureVars, sampleVars, raceVars, callVars>>

\* workerrun.py:213-217 and 191-193
WorkerBody ==
    /\ oargs.orch \in {"worker", "task"} /\ opc = "body"
    /\ ofiles' = IF oenv.pose THEN ofiles \cup BodyFiles(oargs.image_path) ELSE ofiles
    /\ opc' = IF ~oenv.pose THEN "returned"
              ELSE IF oargs.orch = "worker" THEN "fit" ELSE "silhouette"
    /\ oresult' = IF oenv.pose THEN oresult
                  ELSE [kind |-> "error", error |-> "No person detected"]
    /\ UNCHANGED <<oargs, oenv, face_i, sampled, face_skin, face_results, ogender,
                   oexc, fitVars, uvVars, measureVars, sampleVars, raceVars, callVars>>

\* workerrun.py:211: model_paths.get(detected_gender, model_paths['neutral'])
ModelKey(model_paths, gender) == IF gender \in model_paths THEN gender ELSE "neutral"

\* workerrun.py:218-223: crop_face and extract_face_landmarks only report;
\* the four-argument fit of workerrun.py:144-167 exports the mesh to out_path
WorkerFit ==
    /\ oargs.orch = "worker" /\ opc = "fit"
    /\ ofiles' = ofiles \cup {AvatarObjPath(oargs.image_path, ogender)}
    /\ opc' = "save_crop"
    /\ UNCHANGED <<oargs, oenv, face_i, sampled, face_skin, face_results, ogender,
                   oresult, oexc, fitVars, uvVars, measureVars, sampleVars, raceVars, callVars>>

\* workerrun.py:225-231: the face crop is saved when crop_face found a face
WorkerFinish ==
    /\ oargs.orch = "worker" /\ opc = "save_crop"
    /\ ofiles' = IF oenv.wface # "none"
                 THEN ofiles \cup {SuffixPath(oargs.image_path, FacecropSuffix)}
                 ELSE ofiles
    /\ oresult' = [kind |-> "ok",
                   avatar_obj |-> AvatarObjPath(oargs.image_path, ogender),
                   gender |-> ogender,
                   measurements |-> TRUE]
    /\ opc' = "returned"
    /\ UNCHANGED <<oargs, oenv, face_i, sampled, face_skin, face_results, ogender,
                   oexc, fitVars, uvVars, measureVars, sampleVars, raceVars, callVars>>

\* workerrun.py:194-196 with generate_avatar_silhouette (lines 169-181):
\* the RGBA silhouette is saved at out_path, which PIL refuses for a name
\* that does not end in .png
TaskSilhouette ==
    /\ oargs.orch = "task" /\ opc = "silhouette"
    /\ LET out_path == SuffixPath(oargs.image_path, AvatarPngSuffix)
       IN  IF EndsWith(out_path, ExtPng)
           THEN /\ ofiles' = ofiles \cup {out_path}
                /\ oresult' = [kind |-> "ok", avatar_path |-> out_path]
                /\ opc' = "returned"
                /\ oexc' = oexc
           ELSE /\ opc' = "raised"
                /\ oexc' = "OSError"
                /\ UNCHANGED <<ofiles, oresult>>
    /\ UNCHANGED <<oargs, oenv, face_i, sampled, face_skin, face_results, ogender,
                   fitVars, uvVars, measureVars, sampleVars, raceVars, callVars>>

OrchLocals ==
    /\ face_i = 0
    /\ sampled = NoSample
    /\ face_skin = NoColor
    /\ face_results = <<>>
    /\ ogender = ""
    /\ ofiles = {}
    /\ oresult = NoResult
    /\ oexc = "none"

NoFindings == [pose |-> FALSE, gender |-> "fail", faces |-> <<>>, wface |-> "none",
               model_paths |-> {"neutral"}]

\* no orchestrator is running
OrchIdle ==
    /\ oargs = [orch |-> "none", image_path |-> NoPath]
    /\ oenv = NoFindings
    /\ opc = "idle"
    /\ OrchLocals

OrchInit ==
    /\ \E o \in {"main", "script", "worker", "task"}, im \in OrchImages \cup {PhotoUpper} :
           \* main.py:34 and image_utils.py:206 name one .jpg sample image
           /\ o \in {"main", "script"} => im = PhotoJpg
           /\ o = "worker" => im \in OrchImages
           /\ oargs = [orch |-> o, image_path |-> im]
    /\ \E p \in BOOLEAN :
           IF oargs.orch = "script"
           THEN \E fl \in FaceLists : oenv = [NoFindings EXCEPT !.pose = p, !.faces = fl]
           ELSE IF oargs.orch = "task"
           THEN oenv = [NoFindings EXCEPT !.pose = p]
           ELSE \E g \in {"male", "female", "fail"}, wf \in {"none", "box", "mesh"},
                   mp \in {{"neutral"}, {"male", "female", "neutral"}} :
                    oenv = [NoFindings EXCEPT !.pose = p, !.gender = g, !.wface = wf,
                                              !.model_paths = mp]
    /\ opc = IF oargs.orch = "main" THEN "import"
             ELSE IF oargs.orch = "script" THEN "detect_faces"
             ELSE IF oargs.orch = "task" THEN "body" ELSE "gender"
    /\ OrchLocals

(***************************************************************************)
(* Initial states: the arguments, the environment and the disk before the  *)
(* first run.                                                              *)
(***************************************************************************)
EmptyDisk == [i \in Slots |-> NoFile]

\* the garment assets shipped beside the module: nothing; both genders as
\* png; a jpg chosen because no png exists, beside an undecodable jpeg; an
\* undecodable png that shadows a good jpg
AssetSets ==
    { EmptyDisk,
      [EmptyDisk EXCEPT ![Id(OutfitBase("male") \o ExtPng)] = GarmentFile("opaque"),
                        ![Id(OutfitBase("female") \o ExtPng)] = GarmentFile("cutout")],
      [EmptyDisk EXCEPT ![Id(OutfitBase("male") \o ExtJpg)] = GarmentFile("opaque"),
                        ![Id(OutfitBase("male") \o ExtJpeg)] = CorruptFile,
                        ![Id(OutfitBase("female") \o ExtPng)] = GarmentFile("sheer")],
      [EmptyDisk EXCEPT ![Id(OutfitBase("male") \o ExtPng)] = CorruptFile,
                        ![Id(OutfitBase("male") \o ExtJpg)] = GarmentFile("opaque")] }

\* outputs of an earlier export at every path this out_path names
StalePaths(out_path) == TargetPaths(out_path) \cup PurgeSet(out_path)

InitialDisk(assets, out_path, stale, image_path, photo) ==
    LET old == IF stale THEN {Id(p) : p \in StalePaths(out_path)} ELSE {}
    IN  [i \in Slots |->
            IF PathTable[i] = image_path THEN photo
            ELSE IF i \in old THEN OldFile
            ELSE assets[i]]

\* the photograph given as image_path and what the detector does with a
\* texture that replaced it; also a path with no file behind it and a file
\* that is no image
ImageChoices ==
    { [path |-> NoPath, photo |-> NoFile, detectsPasted |-> FALSE] }
    \cup { [path |-> ImageElsewhere, photo |-> f, detectsPasted |-> FALSE] :
               f \in {NoFile, CorruptFile} }
    \cup { [path |-> p, photo |-> PhotoFile(f), detectsPasted |-> FALSE] :
               p \in ImagePaths \ {NoPath}, f \in BOOLEAN }
    \cup { [path |-> ImageBesideOut, photo |-> PhotoFile(TRUE), detectsPasted |-> TRUE] }
    \cup { [path |-> ImageElsewhere, photo |-> TallPhoto, detectsPasted |-> FALSE] }

FitInit(outPaths, genders, images, skins, eyes, vertexSets, assetSets, stales, failures) ==
    /\ \E o \in outPaths, g \in genders, im \in images, s \in skins, e \in eyes,
          v \in vertexSets, a \in assetSets, st \in stales,
          fo \in failures, fg \in failures :
          /\ args = [out_path |-> o, gender |-> g, image_path |-> im.path,
                     skin_color |-> s, eye_color |-> e, vertices |-> v]
          /\ env = [objFails |-> fo, glbFails |-> fg, detectsPasted |-> im.detectsPasted]
          /\ fs = InitialDisk(a, o, st, im.path, im.photo)
          /\ fsPrev = fs
          /\ mesh = NewMesh(v)
    /\ writer = [i \in Slots |-> 0]
    /\ wlog = <<>>
    /\ runNo = 1
    /\ pc = "prepare"
    /\ tex = NoTexture
    /\ ret = NoPath
    /\ exc = "none"

UvIdle == uv_in = <<>> /\ uv_out = <<>>

\* the colour samplers called on a file of their own
NotSampled == [status |-> "idle", value |-> NoColor]
SampleIdle == s_in = <<>> /\ s_skin = NotSampled /\ s_eye = NotSampled

\* a file that is missing or is no image
Unreadable == [readable |-> FALSE, mesh |-> FALSE, box |-> FALSE, layout |-> "spread"]
SampleInputs ==
    FaceFindings
        \cup {[readable |-> TRUE, mesh |-> TRUE, box |-> b, layout |-> l] :
                   b \in BOOLEAN, l \in DOMAIN BorderAnchor}
        \cup {Unreadable}

SkinOf ==
    /\ s_in # <<>> /\ s_skin = NotSampled
    /\ s_skin' = extract_skin_color(s_in)
    /\ UNCHANGED <<fitVars, uvVars, orchVars, measureVars, s_in, s_eye, raceVars, callVars>>

EyeOf ==
    /\ s_in # <<>> /\ s_eye = NotSampled
    /\ s_eye' = extract_eye_color(s_in)
    /\ UNCHANGED <<fitVars, uvVars, orchVars, measureVars, s_in, s_skin, raceVars, callVars>>

(***************************************************************************)
(* Two runs of fit_smplx_to_landmarks at once on the same out_path, each   *)
(* taking the file-system steps of avatar_utils.py:46-50 and 117-160 one   *)
(* at a time: os.path.exists and os.remove are separate calls.             *)
(***************************************************************************)
RaceRuns == {1, 2}
RaceOut == OutPathInDir
\* the paths tested with os.path.exists and then removed, in program order
RemoveSteps ==
    <<PurgePath(RaceOut, PurgeExts[1]), PurgePath(RaceOut, PurgeExts[2]),
      PurgePath(RaceOut, PurgeExts[3]), TexturePath(RaceOut)>>
\* the file each writing step creates, and the step after it
WriteTarget ==
    [save_texture |-> TexturePath(RaceOut), write_mtl |-> MtlPath(RaceOut),
     write_obj |-> RaceOut, export_glb |-> GlbPath(RaceOut)]
AfterWrite ==
    [save_texture |-> "write_mtl", write_mtl |-> "write_obj",
     write_obj |-> "export_glb", export_glb |-> "returned"]
RacePaths == {RemoveSteps[i] : i \in DOMAIN RemoveSteps} \cup TargetPaths(RaceOut)
RaceIdle == r_disk = <<>> /\ r_pc = <<>> /\ r_k = <<>>

\* after the pair k: the next pair, or the save that follows the last one
AfterPair(run) ==
    /\ r_k' = [r_k EXCEPT ![run] = IF @ < Len(RemoveSteps) THEN @ + 1 ELSE @]
    /\ r_pc' = [r_pc EXCEPT ![run] = IF r_k[run] < Len(RemoveSteps) THEN "exists"
                                      ELSE "save_texture"]

\* lines 49 and 120: if os.path.exists(p)
RaceExists ==
    \E run \in RaceRuns :
        /\ r_pc # <<>> /\ r_pc[run] = "exists"
        /\ IF r_disk[RemoveSteps[r_k[run]]] # 0
           THEN r_pc' = [r_pc EXCEPT ![run] = "remove"] /\ r_k' = r_k
           ELSE AfterPair(run)
        /\ r_disk' = r_disk
        /\ UNCHANGED <<fitVars, uvVars, orchVars, measureVars, sampleVars, callVars>>

\* lines 50 and 122: os.remove(p) raises FileNotFoundError when the file
\* is no longer there; nothing catches it
RaceRemove ==
    \E run \in RaceRuns :
        /\ r_pc # <<>> /\ r_pc[run] = "remove"
        /\ IF r_disk[RemoveSteps[r_k[run]]] = 0
           THEN /\ r_pc' = [r_pc EXCEPT ![run] = "FileNotFoundError"]
                /\ r_k' = r_k
                /\ r_disk' = r_disk
           ELSE /\ r_disk' = [r_disk EXCEPT ![RemoveSteps[r_k[run]]] = 0]
                /\ AfterPair(run)
        /\ UNCHANGED <<fitVars, uvVars, orchVars, measureVars, sampleVars, callVars>>

\* lines 123, 128-129, 145-147, 155: each file is written by one call
RaceWrite ==
    \E run \in RaceRuns :
        /\ r_pc # <<>> /\ r_pc[run] \in DOMAIN WriteTarget
        /\ r_disk' = [r_disk EXCEPT ![WriteTarget[r_pc[run]]] = run]
        /\ r_pc' = [r_pc EXCEPT ![run] = AfterWrite[r_pc[run]]]
        /\ r_k' = r_k
        /\ UNCHANGED <<fitVars, uvVars, orchVars, measureVars, sampleVars, callVars>>

(***************************************************************************)
(* Two calls of analyze_face at once (image_utils.py:24-41): each saves    *)
(* its crop as "_facecrop_temp.png" in the working directory and hands     *)
(* that path to the two samplers, which read the file.                     *)
(***************************************************************************)
FaceCalls == {1, 2}
\* what the detectors find in the crop of a box
CallCrops ==
    {[readable |-> TRUE, mesh |-> TRUE, box |-> TRUE, layout |-> l] : l \in {"spread", "corner"}}
NoCropFile == [by |-> 0, crop |-> Unreadable]
CallIdle == c_file = NoCropFile /\ c_pc = <<>> /\ c_read = <<>>

\* lines 31-34: face_img.save("_facecrop_temp.png")
CallCrop ==
    \E call \in FaceCalls :
        /\ c_pc # <<>> /\ c_pc[call] = "crop"
        /\ c_file' = [by |-> call, crop |-> c_read[call].crop]
        /\ c_pc' = [c_pc EXCEPT ![call] = "skin"]
        /\ c_read' = c_read
        /\ UNCHANGED <<fitVars, uvVars, orchVars, measureVars, sampleVars, raceVars>>

\* line 35: extract_skin_color(face_img_path) reads the file
CallSkin ==
    \E call \in FaceCalls :
        /\ c_pc # <<>> /\ c_pc[call] = "skin"
        /\ c_read' = [c_read EXCEPT ![call].skin = extract_skin_color(c_file.crop).value,
                                    ![call].skin_of = c_file.by]
        /\ c_pc' = [c_pc EXCEPT ![call] = "eye"]
        /\ c_file' = c_file
        /\ UNCHANGED <<fitVars, uvVars, orchVars, measureVars, sampleVars, raceVars>>

\* lines 36-41: extract_eye_color(face_img_path) reads the file again
CallEye ==
    \E call \in FaceCalls :
        /\ c_pc # <<>> /\ c_pc[call] = "eye"
        /\ c_read' = [c_read EXCEPT ![call].eye = extract_eye_color(c_file.crop).value,
                                    ![call].eye_of = c_file.by]
        /\ c_pc' = [c_pc EXCEPT ![call] = "returned"]
        /\ c_file' = c_file
        /\ UNCHANGED <<fitVars, uvVars, orchVars, measureVars, sampleVars, raceVars>>

(***************************************************************************)
(* estimate_body_measurements (image_utils.py:244-276).  A landmark list   *)
(* is [len, at] with at[i] = <<x, y>> for i in 0..len-1; x and y are the   *)
(* normalised coordinates counted in twentieths (8 is 0.4, 20 is 1.0).     *)
(* Image sizes are multiples of 20, so x * width is a whole number of      *)
(* pixels.  A length is kept exactly as [sq, scale]: it is                 *)
(* sqrt(sq) / scale, so it equals v exactly when sq = (v * scale)^2.       *)
(***************************************************************************)
left_shoulder == 11
right_shoulder == 12
left_hip == 23
right_hip == 24
left_ankle == 27
right_ankle == 28
\* the landmarks the function reads, in the order it reads them
MeasuredIdx == <<left_shoulder, right_shoulder, left_hip, right_hip, left_ankle, right_ankle>>

\* both coordinates scaled by the image width
get_xy_by_width(landmarks, image_size, i) ==
    <<(landmarks.at[i][1] * image_size[1]) \div 20, (landmarks.at[i][2] * image_size[1]) \div 20>>

\* lines 259-261: (lm.x * image_size[0], lm.y * image_size[1])
get_xy(landmarks, image_size, i) ==
    <<(landmarks.at[i][1] * image_size[1]) \div 20, (landmarks.at[i][2] * image_size[2]) \div 20>>

\* the horizontal part of the distance only
SquaredNormX(p, q) == (p[1] - q[1]) * (p[1] - q[1])

\* np.linalg.norm(p - q), squared
SquaredNorm(p, q) == (p[1] - q[1]) * (p[1] - q[1]) + (p[2] - q[2]) * (p[2] - q[2])

\* twice the midpoint of p and q (lines 268-270 divide the sums by 2)
MidTwice(p, q) == <<p[1] + q[1], p[2] + q[2]>>

\* the measurements from the landmarks that are there, absent ones read as (0, 0)
estimate_body_measurements_lenient(landmarks, image_size) ==
    LET at(i) == IF i < landmarks.len THEN get_xy(landmarks, image_size, i) ELSE <<0, 0>>
    IN  [status |-> "ok",
         shoulder_width |-> [sq |-> SquaredNorm(at(left_shoulder), at(right_shoulder)), scale |-> 1],
         hip_width |-> [sq |-> SquaredNorm(at(left_hip), at(right_hip)), scale |-> 1],
         height |-> [sq |-> SquaredNorm(MidTwice(at(left_shoulder), at(right_shoulder)),
                                        MidTwice(at(left_ankle), at(right_ankle))),
                     scale |-> 2]]

\* lines 244-276; landmarks[i] raises IndexError when i >= len(landmarks)
estimate_body_measurements(landmarks, image_size) ==
    IF \E k \in DOMAIN MeasuredIdx : MeasuredIdx[k] >= landmarks.len
    THEN [status |-> "IndexError"]
    ELSE LET l_shoulder == get_xy(landmarks, image_size, left_shoulder)
             r_shoulder == get_xy(landmarks, image_size, right_shoulder)
             l_hip == get_xy(landmarks, image_size, left_hip)
             r_hip == get_xy(landmarks, image_size, right_hip)
             mid_shoulder == MidTwice(l_shoulder, r_shoulder)
             mid_ankle == MidTwice(get_xy(landmarks, image_size, left_ankle),
                                   get_xy(landmarks, image_size, right_ankle))
         IN  [status |-> "ok",
              shoulder_width |-> [sq |-> SquaredNorm(l_shoulder, r_shoulder), scale |-> 1],
              hip_width |-> [sq |-> SquaredNorm(l_hip, r_hip), scale |-> 1],
              height |-> [sq |-> SquaredNorm(mid_shoulder, mid_ankle), scale |-> 2]]

\* MediaPipe Pose gives 33 landmarks; shorter and empty lists are tried too
PoseCount == 33
ShoulderPairs ==
    {<<<<8, 6>>, <<12, 6>>>>, <<<<8, 6>>, <<8, 6>>>>, <<<<0, 0>>, <<20, 20>>>>, <<<<12, 6>>, <<12, 10>>>>}
HipPairs ==
    {<<<<9, 10>>, <<11, 10>>>>, <<<<10, 10>>, <<10, 10>>>>, <<<<10, 12>>, <<10, 9>>>>}
AnklePairs ==
    {<<<<9, 18>>, <<11, 18>>>>, <<<<9, 6>>, <<11, 6>>>>, <<<<10, 20>>, <<10, 20>>>>,
     <<<<0, 0>>, <<20, 20>>>>}
OtherLandmarks == {<<10, 10>>, <<3, 17>>}
ImageSizes == {<<1000, 1000>>, <<640, 480>>}

PoseLandmarks(n, shoulders, hips, ankles, other) ==
    [len |-> n,
     at |-> [i \in 0..(n - 1) |->
                IF i = left_shoulder THEN shoulders[1]
                ELSE IF i = right_shoulder THEN shoulders[2]
                ELSE IF i = left_hip THEN hips[1]
                ELSE IF i = right_hip THEN hips[2]
                ELSE IF i = left_ankle THEN ankles[1]
                ELSE IF i = right_ankle THEN ankles[2]
                ELSE other]]

MeasureIdle == m_in = <<>> /\ m_out = [status |-> "idle"]

EstimateMeasurements ==
    /\ m_out.status = "idle"
    /\ m_in # <<>>
    /\ m_out' = estimate_body_measurements(m_in.landmarks, m_in.image_size)
    /\ UNCHANGED <<fitVars, uvVars, orchVars, m_in, sampleVars, raceVars, callVars>>

Init ==
    /\ FitInit(OutPaths, Genders, ImageChoices, {SkinTone}, {NoColor, EyeTone},
               {Triangle}, AssetSets, BOOLEAN, BOOLEAN)
    /\ UvIdle
    /\ MeasureIdle
    /\ SampleIdle
    /\ RaceIdle
    /\ CallIdle
    /\ OrchIdle

Next ==
    \/ Prepare
    \/ BaseFill
    \/ FaceOverlay
    \/ GarmentOverlay
    \/ PaintEyes
    \/ SaveTexture
    \/ WriteMtl
    \/ AssembleMesh
    \/ WriteObj
    \/ ExportGlb
    \/ NextRun

Spec == Init /\ [][Next]_vars

\* the mesh assembler on its own inputs: vertex arrays and the optional skin colour
InitMesh ==
    /\ FitInit({OutPathInDir}, {"neutral"}, {[path |-> NoPath, photo |-> NoFile, detectsPasted |-> FALSE]},
               {NoColor, SkinTone}, {NoColor, EyeTone},
               {Triangle, FlatX, FlatY}, {EmptyDisk}, {FALSE}, {FALSE})
    /\ UvIdle
    /\ MeasureIdle
    /\ SampleIdle
    /\ RaceIdle
    /\ CallIdle
    /\ OrchIdle

SpecMesh == InitMesh /\ [][Next]_vars

(***************************************************************************)
(* The planar mapping as a function of the vertex array alone.             *)
(***************************************************************************)
MaxCoord == 2
NumVertices == 3

Grid == {<<x, y, 0>> : x \in 0..MaxCoord, y \in 0..MaxCoord}
VertexArrays == [1..NumVertices -> Grid]

ComputeUV ==
    /\ uv_out = <<>>
    /\ uv_out' = PlanarUV(uv_in)
    /\ UNCHANGED <<fitVars, uv_in, orchVars, measureVars, sampleVars, raceVars, callVars>>

InitUV ==
    /\ FitInit({OutPathInDir}, {"neutral"}, {[path |-> NoPath, photo |-> NoFile, detectsPasted |-> FALSE]},
               {NoColor}, {NoColor}, {Triangle}, {EmptyDisk}, {FALSE}, {FALSE})
    /\ uv_in \in VertexArrays
    /\ MeasureIdle
    /\ SampleIdle
    /\ RaceIdle
    /\ CallIdle
    /\ uv_out = <<>>
    /\ OrchIdle

NextUV == ComputeUV

SpecUV == InitUV /\ [][NextUV]_vars

(***************************************************************************)
(* The orchestrators and the colour samplers on their own inputs.          *)
(***************************************************************************)
InitOrch ==
    /\ FitInit({OutPathInDir}, {"neutral"}, {[path |-> NoPath, photo |-> NoFile, detectsPasted |-> FALSE]},
               {NoColor}, {NoColor}, {Triangle}, {EmptyDisk}, {FALSE}, {FALSE})
    /\ UvIdle
    /\ MeasureIdle
    /\ SampleIdle
    /\ RaceIdle
    /\ CallIdle
    /\ OrchInit

NextOrch ==
    \/ ImportMain
    \/ DetectFaces
    \/ CropFace
    \/ SampleSkin
    \/ SampleEye
    \/ ScriptBody
    \/ ScriptMeasure
    \/ WorkerGender
    \/ WorkerBody
    \/ WorkerFit
    \/ WorkerFinish
    \/ TaskSilhouette

SpecOrch == InitOrch /\ [][NextOrch]_vars

(***************************************************************************)
(* estimate_body_measurements on its own inputs.                           *)
(***************************************************************************)
InitMeasure ==
    /\ FitInit({OutPathInDir}, {"neutral"}, {[path |-> NoPath, photo |-> NoFile, detectsPasted |-> FALSE]},
               {NoColor}, {NoColor}, {Triangle}, {EmptyDisk}, {FALSE}, {FALSE})
    /\ UvIdle
    /\ OrchIdle
    /\ \E n \in 0..PoseCount, shoulders \in ShoulderPairs, hips \in HipPairs,
          ankles \in AnklePairs, other \in OtherLandmarks, size \in ImageSizes :
           m_in = [landmarks |-> PoseLandmarks(n, shoulders, hips, ankles, other),
                   image_size |-> size]
    /\ m_out = [status |-> "idle"]
    /\ SampleIdle
    /\ RaceIdle
    /\ CallIdle

NextMeasure == EstimateMeasurements

SpecMeasure == InitMeasure /\ [][NextMeasure]_vars

(***************************************************************************)
(* extract_skin_color and extract_eye_color on their own inputs.           *)
(***************************************************************************)
InitSample ==
    /\ FitInit({OutPathInDir}, {"neutral"}, {[path |-> NoPath, photo |-> NoFile, detectsPasted |-> FALSE]},
               {NoColor}, {NoColor}, {Triangle}, {EmptyDisk}, {FALSE}, {FALSE})
    /\ UvIdle
    /\ OrchIdle
    /\ MeasureIdle
    /\ s_in \in SampleInputs
    /\ s_skin = NotSampled
    /\ s_eye = NotSampled
    /\ RaceIdle
    /\ CallIdle

NextSample == SkinOf \/ EyeOf

SpecSample == InitSample /\ [][NextSample]_vars

(***************************************************************************)
(* Two runs at once on one out_path; two analyze_face calls at once.       *)
(***************************************************************************)
IdleButFor(raceInit, callInit) ==
    /\ FitInit({OutPathInDir}, {"neutral"}, {[path |-> NoPath, photo |-> NoFile, detectsPasted |-> FALSE]},
               {NoColor}, {NoColor}, {Triangle}, {EmptyDisk}, {FALSE}, {FALSE})
    /\ UvIdle
    /\ OrchIdle
    /\ MeasureIdle
    /\ SampleIdle
    /\ raceInit
    /\ callInit

\* the disk holds any of the files of an earlier export, or none
InitRace ==
    IdleButFor(/\ r_disk \in [RacePaths -> {0, 3}]
               /\ r_pc = [run \in RaceRuns |-> "exists"]
               /\ r_k = [run \in RaceRuns |-> 1],
               CallIdle)

NextRace == RaceExists \/ RaceRemove \/ RaceWrite

SpecRace == InitRace /\ [][NextRace]_vars

\* the temporary crop file is there from an earlier call or not; the two
\* calls have crops of the same kind or of different kinds
InitCalls ==
    IdleButFor(RaceIdle,
               /\ c_file \in {NoCropFile} \cup {[by |-> 3, crop |-> c] : c \in CallCrops}
               /\ c_pc = [call \in FaceCalls |-> "crop"]
               /\ \E crops \in [FaceCalls -> CallCrops] :
                      c_read = [call \in FaceCalls |->
                                   [crop |-> crops[call], skin |-> NoColor, skin_of |-> 0,
                                    eye |-> NoColor, eye_of |-> 0]])

NextCalls == CallCrop \/ CallSkin \/ CallEye

SpecCalls == InitCalls /\ [][NextCalls]_vars

(***************************************************************************)
(* Properties                                                              *)
(***************************************************************************)
\* the run has saved its texture file
TextureSaved == pc \in {"write_mtl", "assemble", "write_obj", "export_glb", "returned"}
\* the run has attached colours and texture to the mesh
MeshAssembled == pc \in {"write_obj", "export_glb", "returned"}
SavedTexture == File(fs, TexturePath(args.out_path)).px
EyePixels == {i \in Pixels : InEyes(SamplePoints[i])}

\* C1: when a garment is applied and an eye colour is given, the texture the
\* run saves shows the eye colour at every pixel of both eye circles: the
\* eyes lie on top of the garment layer.
C1_EyesOverGarment ==
    (TextureSaved /\ GarmentApplies /\ args.eye_color # NoColor)
        => \A i \in EyePixels : SavedTexture[i] = args.eye_color

\* C2: a second run of the export with the same out_path, gender and inputs
\* leaves the file system exactly as the first run left it.
C2_RerunLeavesDiskAlike ==
    (runNo > 1 /\ Finished) => fs = fsPrev

\* C3: once the purge has run, no file that was there before this run is
\* left at the mesh, material, texture or binary-scene path, so after the
\* run (also one whose mesh write or scene export failed) every file at
\* those paths was written by this run.
C3_TargetsPurged ==
    pc # "prepare"
        => \A p \in TargetPaths(args.out_path) : Exists(p) => File(writer, p) = runNo

\* the orchestrator has stopped, by returning, by falling off its end, or
\* by an exception
OrchStopped == opc \in {"returned", "done", "raised"}

\* C4: when pose landmarks are found in a readable image, an orchestrator
\* run ends in Done with a result, whatever the optional stages do (no
\* face, only a bounding box instead of the dense mesh, gender detection
\* failing): it never ends by an exception or an error result.
C4_OnlyMissingPoseAborts ==
    (OrchStopped /\ oenv.pose)
        => /\ opc # "raised"
           /\ oexc = "none"
           /\ oresult.kind \in {"ok", "done"}

\* C5: extract_skin_color and extract_eye_color return (a colour, the
\* default skin tone, or no colour) for every landmark list
\* extract_face_landmarks yields on a readable crop: a call never raises.
C5_SamplersNeverRaise ==
    sampled.op \in {"extract_skin_color", "extract_eye_color"} => sampled.status = "ok"

\* C6: for a vertex set with zero extent in x or in y, every vertex of the
\* assembled mesh has a UV whose two coordinates are defined numbers of
\* [0, 1]; no NaN reaches the mesh.
C6_DegenerateUVDefined ==
    (MeshAssembled /\ Degenerate(args.vertices))
        => \A i \in 1..Len(args.vertices) :
               InUnit(mesh.visual.uv[i][1]) /\ InUnit(mesh.visual.uv[i][2])

\* C7: for a vertex set with extent in both x and y, the mapping returns one
\* UV per vertex with u = (x - x_min) / (x_max - x_min) and
\* v = (y - y_min) / (y_max - y_min); both lie in [0, 1], a vertex at the
\* minimum of an axis gets 0 there and a vertex at the maximum gets 1.
AxisValues(vs, k) == {vs[i][k] : i \in 1..Len(vs)}
Least(S) == CHOOSE m \in S : \A x \in S : m <= x
Greatest(S) == CHOOSE m \in S : \A x \in S : x <= m
Extent(vs, k) == Greatest(AxisValues(vs, k)) - Least(AxisValues(vs, k))

C7_PlanarUVNormalised ==
    (uv_out # <<>> /\ Extent(uv_in, 1) > 0 /\ Extent(uv_in, 2) > 0)
        => /\ Len(uv_out) = Len(uv_in)
           /\ \A i \in 1..Len(uv_in) : \A k \in 1..2 :
                  LET q == uv_out[i][k]
                      lo == Least(AxisValues(uv_in, k))
                      hi == Greatest(AxisValues(uv_in, k))
                  IN  /\ q.den = hi - lo
                      /\ q.num = uv_in[i][k] - lo
                      /\ 0 <= q.num /\ q.num <= q.den
                      /\ (uv_in[i][k] = lo => q.num = 0)
                      /\ (uv_in[i][k] = hi => q.num = q.den)

\* a mapped array with a vertex strictly inside the range on both axes
C7_Witness ==
    /\ uv_out # <<>>
    /\ Extent(uv_in, 1) > 0 /\ Extent(uv_in, 2) > 0
    /\ \E i \in 1..Len(uv_in) : \A k \in 1..2 :
           0 < uv_out[i][k].num /\ uv_out[i][k].num < uv_out[i][k].den

\* C8: when a skin colour is given, the assembled mesh carries both the
\* per-vertex colour (R, G, B, 255) on every vertex and the texture with
\* its UVs: attaching the texture leaves the vertex colours in place.
C8_ColoursAndTexture ==
    (MeshAssembled /\ args.skin_color # NoColor)
        => /\ mesh.visual.kind = "texture"
           /\ "vertex_colors" \in DOMAIN mesh.visual
           /\ \A i \in 1..Len(args.vertices) :
                  mesh.visual.vertex_colors[i] = args.skin_color \o <<255>>

\* C9: for an out_path ending in .obj the texture path ends in .png, the
\* material path in .mtl and the binary-scene path in .glb; the four
\* artifact paths lie in out_path's directory and are pairwise distinct.
C9_ArtifactPathsDistinct ==
    EndsWith(args.out_path, ExtObj)
        => /\ EndsWith(TexturePath(args.out_path), ExtPng)
           /\ EndsWith(MtlPath(args.out_path), ExtMtl)
           /\ EndsWith(GlbPath(args.out_path), ExtGlb)
           /\ \A p \in TargetPaths(args.out_path) : Dirname(p) = Dirname(args.out_path)
           /\ Cardinality(TargetPaths(args.out_path)) = 4

\* C10: a run writes its artifacts in the order texture, material, mesh,
\* binary scene; the material file names the texture by its bare file name;
\* the mesh file starts with "mtllib <material file name>" and "usemtl skin",
\* ahead of every geometry record.
ArtifactOrder == <<"texture", "mtl", "obj", "glb">>
IsArtifactWrite(e) ==
    e.op = "write" /\ \E k \in 1..Len(ArtifactOrder) : ArtifactOrder[k] = e.kind
ArtifactWrites == SelectSeq(wlog, IsArtifactWrite)
WrittenThisRun(p) == Exists(p) /\ File(writer, p) = runNo /\ Write(File(fs, p).kind, p) \in {wlog[i] : i \in 1..Len(wlog)}

C10_WriteOrderAndReferences ==
    /\ Len(ArtifactWrites) <= Len(ArtifactOrder)
    /\ \A i \in 1..Len(ArtifactWrites) : ArtifactWrites[i].kind = ArtifactOrder[i]
    /\ LET mtl == MtlPath(args.out_path)
       IN  (WrittenThisRun(mtl) /\ File(fs, mtl).kind = "mtl")
               => /\ File(fs, mtl).map_Kd = Basename(TexturePath(args.out_path))
                  /\ \A k \in 1..Len(File(fs, mtl).map_Kd) : File(fs, mtl).map_Kd[k] # Slash
    /\ (WrittenThisRun(args.out_path) /\ File(fs, args.out_path).kind = "obj")
           => LET lines == File(fs, args.out_path).lines
              IN  /\ Len(lines) >= 2
                  /\ lines[1] = ObjLine("mtllib", Basename(MtlPath(args.out_path)))
                  /\ lines[2] = ObjLine("usemtl", SkinName)
                  /\ \A k \in 1..Len(lines) : lines[k].tag \in {"v", "f"} => k > 2

\* a run in a subdirectory that wrote all four artifacts, geometry included
C10_Witness ==
    /\ pc = "returned"
    /\ Dirname(args.out_path) # <<>>
    /\ Len(ArtifactWrites) = 4
    /\ Len(File(fs, args.out_path).lines) > 2

\* C11: the binary-scene export step never raises; it returns the .glb path
\* when it wrote the .glb file and the mesh path out_path when the export
\* failed, and it leaves the texture, material and mesh files as they were.
ArtifactsBeforeGlb(out_path) == {TexturePath(out_path), MtlPath(out_path), out_path}

C11_GlbFailureReturnsMeshPath ==
    [][ pc = "export_glb"
          => /\ pc' = "returned"
             /\ exc' = "none"
             /\ (env.glbFails => ret' = args.out_path /\ fs' = fs)
             /\ (~env.glbFails =>
                    /\ ret' = SplitextRoot(args.out_path) \o ExtGlb
                    /\ File(fs', ret').kind = "glb")
             /\ \A p \in ArtifactsBeforeGlb(args.out_path) : File(fs', p) = File(fs, p) ]_vars

\* a run whose scene export failed after the three other files were written
C11_Witness ==
    /\ pc = "returned"
    /\ env.glbFails
    /\ ret = args.out_path
    /\ \A p \in ArtifactsBeforeGlb(args.out_path) : File(writer, p) = runNo

\* C12: the base layer is the skin colour the caller supplied: with no
\* garment applied, every pixel of the saved texture outside the face
\* rectangle and the eye circles has that colour.
C12_BaseFillIsSkinColor ==
    (TextureSaved /\ args.skin_color # NoColor /\ ~GarmentApplies)
        => \A i \in Pixels :
               (~InFace(SamplePoints[i]) /\ ~InEyes(SamplePoints[i]))
                   => SavedTexture[i] = args.skin_color

\* no face can be found: no image is given, or the file is missing, is not
\* an image, or is a photo that shows no face
NoFaceEvidence ==
    \/ args.image_path = NoPath
    \/ File(fs, args.image_path).kind \in {"none", "corrupt"}
    \/ File(fs, args.image_path).kind = "photo" /\ ~File(fs, args.image_path).face

Analyzed == 1..Len(face_results)

\* C14: for a face crop in which neither the face mesh nor the face
\* detector finds anything, extract_skin_color returns exactly (198,134,66)
\* and extract_eye_color returns no colour.
C14_NoFaceEvidenceDefaults ==
    /\ \A k \in Analyzed :
           (~oenv.faces[k].mesh /\ ~oenv.faces[k].box)
               => face_results[k] = [skin_color |-> <<198, 134, 66>>, eye_color |-> <<>>]
    /\ (opc = "eye" /\ ~oenv.faces[face_i].mesh /\ ~oenv.faces[face_i].box)
           => sampled = [op |-> "extract_skin_color", status |-> "ok", value |-> <<198, 134, 66>>]

\* a face without any evidence went through both samplers
C14_Witness ==
    \E k \in Analyzed : ~oenv.faces[k].mesh /\ ~oenv.faces[k].box

\* the faces whose crop has been handed to extract_skin_color, whether or
\* not the call came back
Handed ==
    {k \in 1..Len(oenv.faces) : k < face_i \/ (k = face_i /\ opc \in {"eye", "raised"})}

\* C15: for every face handed to the samplers, extract_face_landmarks
\* returns the dense mesh landmarks whenever the mesh finds the face, even
\* if a face box is detectable too; the four box corners only when the mesh
\* finds nothing and a box is found; and nothing only when both find nothing.
C15_LandmarkTiersInOrder ==
    \A k \in Handed :
        LET found == oenv.faces[k]
            coords == extract_face_landmarks(found)
        IN  /\ found.mesh => /\ coords.len = 468
                              /\ \A i \in 0..467 : coords.at[i] = MeshPoint(found.layout, i)
            /\ (~found.mesh /\ found.box)
                   => /\ coords.len = 4
                      /\ <<coords.at[0], coords.at[1], coords.at[2], coords.at[3]>>
                             = BoxCorners(CropBox)
            /\ (coords = NoCoords) <=> (~found.mesh /\ ~found.box)

\* a face that both detectors find went through the samplers
C15_Witness ==
    \E k \in Analyzed : oenv.faces[k].mesh /\ oenv.faces[k].box

\* C16: whenever the dense mesh is available, the eye colour is sampled at
\* the two iris landmarks 474 and 469; the eye-corner landmarks 33, 133,
\* 362, 263 are sample points only in the box-corner mode.
C16_DenseEyesAtIris ==
    \A k \in Analyzed :
        oenv.faces[k].mesh
            => EyePoints(extract_face_landmarks(oenv.faces[k]))
                   = <<MeshPoint(oenv.faces[k].layout, 474), MeshPoint(oenv.faces[k].layout, 469)>>

\* the six landmarks and the image size the measurements were taken from
Lm(i) == m_in.landmarks.at[i]
Width == m_in.image_size[1]
Height == m_in.image_size[2]
\* a landmark at pixel scale
Px(i) == <<(Lm(i)[1] * Width) \div 20, (Lm(i)[2] * Height) \div 20>>
Square(d) == d * d
\* the landmark list with every landmark the measurements do not name moved
Moved ==
    [m_in.landmarks EXCEPT !.at = [i \in DOMAIN @ |->
        IF i \in {11, 12, 23, 24, 27, 28} THEN @[i] ELSE <<(@[i][1] + 7) % 21, (@[i][2] + 5) % 21>>]]

\* C17: every landmark is mapped to (x * width, y * height); shoulder width
\* is the distance between landmarks 11 and 12, hip width the distance
\* between 23 and 24, height the distance between the midpoint of 11, 12
\* and the midpoint of 27, 28.  Shoulders at (0.4, 0.3), (0.6, 0.3) and
\* ankles at (0.45, 0.9), (0.55, 0.9) on a 1000 x 1000 image give 200 and
\* 600.  No other landmark has any influence on the result.
C17_MeasurementsFromSixLandmarks ==
    m_out.status = "ok" =>
        /\ m_out.shoulder_width.scale = 1
        /\ m_out.shoulder_width.sq
               = Square(Px(11)[1] - Px(12)[1]) + Square(Px(11)[2] - Px(12)[2])
        /\ m_out.hip_width.scale = 1
        /\ m_out.hip_width.sq
               = Square(Px(23)[1] - Px(24)[1]) + Square(Px(23)[2] - Px(24)[2])
        /\ m_out.height.scale = 2
        /\ m_out.height.sq
               = Square((Px(11)[1] + Px(12)[1]) - (Px(27)[1] + Px(28)[1]))
                   + Square((Px(11)[2] + Px(12)[2]) - (Px(27)[2] + Px(28)[2]))
        /\ (/\ m_in.image_size = <<1000, 1000>>
            /\ Lm(11) = <<8, 6>> /\ Lm(12) = <<12, 6>>
            /\ Lm(27) = <<9, 18>> /\ Lm(28) = <<11, 18>>)
               => /\ m_out.shoulder_width.sq = Square(200 * m_out.shoulder_width.scale)
                  /\ m_out.height.sq = Square(600 * m_out.height.scale)
        /\ estimate_body_measurements(Moved, m_in.image_size) = m_out

\* the example of the claim has been measured on a non-square image too
C17_Witness ==
    /\ m_out.status = "ok"
    /\ m_in.image_size = <<1000, 1000>>
    /\ Lm(11) = <<8, 6>> /\ Lm(12) = <<12, 6>>
    /\ Lm(27) = <<9, 18>> /\ Lm(28) = <<11, 18>>
    /\ m_out.shoulder_width = [sq |-> 40000, scale |-> 1]
    /\ m_out.height = [sq |-> 1440000, scale |-> 2]

\* C18: with fewer than 29 landmarks, the empty list included, the call
\* raises IndexError and yields no measurement; with 29 or more it returns
\* all three measurements.
C18_ShortListRaisesIndexError ==
    m_out.status # "idle" =>
        /\ m_in.landmarks.len < 29 => m_out = [status |-> "IndexError"]
        /\ m_in.landmarks.len >= 29
               => /\ m_out.status = "ok"
                  /\ DOMAIN m_out = {"status", "shoulder_width", "hip_width", "height"}

\* a list that has the shoulders and hips but not the right ankle raised
C18_Witness ==
    m_out.status = "IndexError" /\ m_in.landmarks.len = 28

\* C19: for a full 33-landmark list with coordinates in [0, 1] and any
\* image size, the three measurements are non-negative, and each is zero
\* exactly when the two points it is measured between coincide.
C19_NonNegativeZeroIffCoincident ==
    (m_out.status = "ok" /\ m_in.landmarks.len = 33
        /\ \A i \in 0..32 : Lm(i)[1] \in 0..20 /\ Lm(i)[2] \in 0..20)
        => /\ m_out.shoulder_width.sq >= 0 /\ m_out.shoulder_width.scale > 0
           /\ m_out.hip_width.sq >= 0 /\ m_out.hip_width.scale > 0
           /\ m_out.height.sq >= 0 /\ m_out.height.scale > 0
           /\ (m_out.shoulder_width.sq = 0) <=> (Lm(11) = Lm(12))
           /\ (m_out.hip_width.sq = 0) <=> (Lm(23) = Lm(24))
           /\ (m_out.height.sq = 0)
                  <=> /\ Lm(11)[1] + Lm(12)[1] = Lm(27)[1] + Lm(28)[1]
                      /\ Lm(11)[2] + Lm(12)[2] = Lm(27)[2] + Lm(28)[2]

\* a full list whose shoulder midpoint and ankle midpoint coincide while
\* the hips are apart
C19_Witness ==
    /\ m_out.status = "ok" /\ m_in.landmarks.len = 33
    /\ m_out.height.sq = 0 /\ Lm(11) # Lm(27)
    /\ m_out.hip_width.sq > 0 /\ Lm(23)[1] = Lm(24)[1]

\* the face layer cannot read its image: no file at image_path, or a file
\* the detectors cannot open
FaceLayerFails ==
    args.image_path # NoPath /\ File(fs, args.image_path).kind \notin {"photo", "texture"}
\* the garment layer cannot read its asset: none of the three files is
\* there, or the first one found cannot be decoded
GarmentLayerFails ==
    OutfitBase(args.gender) # NoPath
        /\ (OutfitPath = NoPath \/ File(fs, OutfitPath).kind # "garment")

\* C20: when the face overlay or the garment overlay fails (the detector
\* raises, the file is missing or cannot be decoded), nothing is raised: the
\* step leaves the texture exactly as it was and the run goes on to the next
\* layer, and from there to the export.
C20_FailedLayerSkipped ==
    [][ /\ (pc = "face" /\ FaceLayerFails)
            => tex' = tex /\ pc' = "garment" /\ exc' = "none" /\ fs' = fs
        /\ (pc = "garment" /\ GarmentLayerFails)
            => tex' = tex /\ pc' = "eyes" /\ exc' = "none" /\ fs' = fs
        /\ (pc \in {"face", "garment", "eyes"})
            => Len(tex'.cur) = Len(tex.cur) /\ Len(tex.cur) = Len(SamplePoints) ]_vars

\* a first run whose image and garment are both undecodable has exported
\* its texture and its glb
C20_Witness ==
    /\ runNo = 1 /\ pc = "returned" /\ exc = "none"
    /\ args.image_path # NoPath /\ File(fs, args.image_path) = CorruptFile
    /\ OutfitPath # NoPath /\ File(fs, OutfitPath) = CorruptFile
    /\ SavedTexture = Uniform(FillColor)
    /\ File(fs, GlbPath(args.out_path)).kind = "glb"

\* the fallbacks a run of the worker task went through: the classifier
\* failed and the gender is the neutral default, the body model of the
\* detected gender is not configured and the neutral one is used, no face
\* was found in the photograph
Degradations ==
    (IF oenv.gender = "fail" THEN {"gender_neutral"} ELSE {})
        \cup (IF ModelKey(oenv.model_paths, ogender) # ogender THEN {"model_neutral"} ELSE {})
        \cup (IF oenv.wface = "none" THEN {"no_face"} ELSE {})
\* what the returned dictionary says about them
Reported(result) ==
    IF "degradations" \in DOMAIN result THEN result.degradations ELSE {}

\* C21: what process_user_image_3d_auto_gender returns tells a failed run
\* from a successful one: a failure carries an error and no artifact path, a
\* success carries the artifact path and no error, and a success lists the
\* fallbacks that fired during the run.
C21_ResultListsDegradations ==
    (oargs.orch = "worker" /\ opc = "returned")
        => IF oresult.kind = "error"
           THEN "avatar_obj" \notin DOMAIN oresult
           ELSE /\ oresult.kind = "ok"
                /\ "error" \notin DOMAIN oresult
                /\ oresult.avatar_obj = AvatarObjPath(oargs.image_path, ogender)
                /\ Reported(oresult) = Degradations

\* C22: for a file that cannot be read, extract_skin_color and
\* extract_eye_color end in the error InputUnavailable; neither reports a
\* colour (the default skin tone least of all) nor an absent eye colour.
C22_UnreadableIsFatal ==
    (s_in # <<>> /\ ~s_in.readable)
        => /\ s_skin # NotSampled
                => s_skin.status = "raised" /\ s_skin.error = "InputUnavailable"
           /\ s_eye # NotSampled
                => s_eye.status = "raised" /\ s_eye.error = "InputUnavailable"

\* the pixels of the closed square window of radius r around the anchor
\* that lie inside the crop
ClosedWindowColors(anchor, r) ==
    LET side == 2 * r + 1
        pts == [j \in 1..(side * side) |->
                   <<anchor[1] + ((j - 1) \div side) - r, anchor[2] + ((j - 1) % side) - r>>]
        kept == SelectSeq(pts, InCrop)
    IN  [j \in 1..Len(kept) |-> CropPixel(kept[j][1], kept[j][2])]
RECURSIVE ClosedColors(_, _)
ClosedColors(points, r) ==
    IF points = <<>> THEN <<>>
    ELSE ClosedWindowColors(Head(points), r) \o ClosedColors(Tail(points), r)
ClosedMean(points, r) ==
    IF ClosedColors(points, r) = <<>> THEN Returned(NoColor)
    ELSE Returned(MeanColor(ClosedColors(points, r)))

\* C23: with dense landmarks, the colour each sampler returns is the
\* per-channel mean, truncated to an integer, over the pixels inside the
\* image with |nx - x| <= r and |ny - y| <= r around its anchors (r = 10 for
\* skin, r = 5 for eyes), and it is absent exactly when no such pixel is
\* inside the image.
C23_ClosedWindowMean ==
    (s_in # <<>> /\ s_in.readable /\ s_in.mesh)
        => LET coords == extract_face_landmarks(s_in)
           IN  /\ s_skin # NotSampled
                    => s_skin = ClosedMean(<<coords.at[234], coords.at[454]>>, 10)
               /\ s_eye # NotSampled
                    => s_eye = ClosedMean(EyePoints(coords), 5)

\* the size a crop has when it is scaled, keeping its proportions, to fit
\* within a square of the given side
FitWithin(crop, side) ==
    LET longest == IF crop[1] > crop[2] THEN crop[1] ELSE crop[2]
    IN  <<(crop[1] * side) \div longest, (crop[2] * side) \div longest>>
\* the rectangle such a crop covers when centred on the anchor (256, 163)
CentredOrigin(size) == <<256 - size[1] \div 2, 163 - size[2] \div 2>>
FaceCropPasted ==
    /\ pc = "garment" /\ args.image_path # NoPath
    /\ File(fs, args.image_path).kind = "photo" /\ File(fs, args.image_path).face

\* C24: after the face layer, the face covers the rectangle its crop has
\* when scaled with its proportions kept to fit within 143 x 143 pixels and
\* centred on (256, 163); that rectangle lies inside the texture, the pixels
\* in it are the crop's and the pixels outside it are as the base fill left
\* them.
C24_FaceKeepsProportions ==
    FaceCropPasted
        => LET size == FitWithin(File(fs, args.image_path).crop, 143)
               origin == CentredOrigin(size)
           IN  /\ 0 <= origin[1] /\ origin[1] + size[1] <= 512
               /\ 0 <= origin[2] /\ origin[2] + size[2] <= 512
               /\ \A i \in Pixels :
                      tex.cur[i] = IF InRect(SamplePoints[i], origin, size[1], size[2])
                                   THEN FacePixel
                                   ELSE BaseLayer.cur[i]

\* C25: two runs at once on the same out_path both come to their end
\* without raising, under every interleaving of their exists, remove and
\* write steps, and every file they leave was written whole by one of them.
C25_ConcurrentRunsLastWriterWins ==
    /\ \A run \in RaceRuns : r_pc[run] # "FileNotFoundError"
    /\ (\A run \in RaceRuns : r_pc[run] = "returned")
           => \A path \in TargetPaths(RaceOut) : r_disk[path] \in RaceRuns

\* C29: of two analyze_face calls at once, each has its skin and its eye
\* colour sampled from the crop it saved itself, under every interleaving of
\* their steps.
C29_CallsReadOwnCrop ==
    \A call \in FaceCalls :
        /\ c_pc[call] \in {"eye", "returned"}
               => /\ c_read[call].skin_of = call
                  /\ c_read[call].skin = extract_skin_color(c_read[call].crop).value
        /\ c_pc[call] = "returned"
               => /\ c_read[call].eye_of = call
                  /\ c_read[call].eye = extract_eye_color(c_read[call].crop).value

\* C26: no run removes or writes the file at image_path: none of the paths
\* purged and none of the texture, material, mesh and binary-scene paths
\* written is the input photograph's.
C26_InputPhotoUntouched ==
    args.image_path # NoPath
        => \A k \in 1..Len(wlog) : wlog[k].path # args.image_path

\* C28: a path the run returns names a file this run wrote: the .glb path
\* is returned only after the binary export succeeded, and out_path only if
\* the mesh file was written.
C28_ReturnedPathWasWritten ==
    (pc = "returned" /\ ret # NoPath)
        => /\ File(writer, ret) = runNo
           /\ ret = GlbPath(args.out_path) => File(fs, ret).kind = "glb"
           /\ ret = args.out_path
                  => /\ File(fs, ret).kind = "obj"
                     /\ File(fs, ret).lines
                            = ObjHeader(Basename(MtlPath(args.out_path))) \o ObjGeometry(mesh)

\* the diagnostic files an orchestrator has written beside the image: all
\* it wrote but the fixed temporary crop and the mesh
DebugFiles ==
    ofiles \ {FaceCropTemp, AvatarObjPath(oargs.image_path, ogender)}
DebugSuffixes == {BodymaskSuffix, MeasurementsSuffix, FacecropSuffix, AvatarPngSuffix}

\* C27: whatever the extension of image_path, the mask preview, the
\* measurement dump, the face crop and the silhouette are written at paths
\* other than image_path, each being the image's name with its extension
\* replaced by one occurrence of the file's fixed suffix.
C27_DebugFilesBesideInput ==
    \A f \in DebugFiles :
        /\ f # oargs.image_path
        /\ \E suffix \in DebugSuffixes : f = SplitextRoot(oargs.image_path) \o suffix

\* C30: when no pose landmarks are found, process_user_image and
\* process_user_image_3d_auto_gender return the error result
\* 'No person detected' and have written no file at all.
C30_NoPoseNoFiles ==
    (oargs.orch \in {"worker", "task"} /\ ~oenv.pose /\ opc \notin {"gender", "body"})
        => /\ opc = "returned"
           /\ oexc = "none"
           /\ oresult = [kind |-> "error", error |-> "No person detected"]
           /\ ofiles = {}

\* both tasks have returned the error for an image without a pose
C30_Witness ==
    /\ oargs.orch = "task" /\ ~oenv.pose /\ opc = "returned"
    /\ oresult = [kind |-> "error", error |-> "No person detected"]
    /\ ofiles = {}
====
